---- MODULE Spec2Model ----
(***************************************************************************)
(* A model of the document pipeline of backend/: the hybrid classifier     *)
(* (ml_classifier.py), the syllabus-review field extractor                 *)
(* (field_extractor.py) and the OCR candidate search (ocr_engine.py).      *)
(*                                                                         *)
(* Texts are TLA+ strings; substring tests, str.lower(), str.strip() and   *)
(* the regular expressions of the source are computed character by         *)
(* character.  Probabilities and thresholds are integers in thousandths,   *)
(* returned confidences are integers in hundredths (round(x, 2)).  OCR     *)
(* confidences are integers in half points (a median of integers).         *)
(***************************************************************************)
EXTENDS Integers, Sequences, FiniteSets, TLC

VARIABLES
    model,                  \* self.model: "none" or "loaded"
    confidence_threshold,   \* self.confidence_threshold, in thousandths
    doc,                    \* the text the caller holds
    pred,                   \* what the model did in the last classify call
    result,                 \* what the last classify call returned
    lastScores,             \* the scores dict of the last rule-engine run
    ruleOut,                \* the last direct rule_based_classification call
    ruleLog,                \* text -> what the first call on it returned
    calls,                  \* number of direct rule-engine calls made
    ftext,                  \* the text given to extract_syllabus_review
    fields,                 \* what extract_syllabus_review returned
    file,                   \* the file given to extract_text: exists, extension
    backend,                \* what the OCR backend answers for each image and config
    max_chars_env,          \* OCR_MAX_CHARS
    max_pages_env,          \* OCR_MAX_PAGES
    pc,                     \* where the extraction is
    step,                   \* the step of extract_text_from_image in progress
    cand, cfg,              \* the indices of the search loops
    best_text, best_conf,   \* the running best candidate
    attempts,               \* the (variant, config) pairs the search has tried
    header_text, body_text, \* the texts of the two regions
    npages,                 \* the number of rasterized pages
    page_i,                 \* the index of the page in progress
    extracted_text,         \* the texts of the pages done
    temp_files,             \* indices i whose temp_page_<i>.png exists
    otext,                  \* what extract_text returned
    raised,                 \* the exception that left extract_text
    degraded,               \* a step's own handler has run
    caught,                 \* the outer handler that last swallowed an exception
    run,                    \* the number of the search run in progress
    prevBest,               \* what the earlier runs selected
    processed,              \* the indices of the pages given to extract_text_from_image
    untruncated,            \* per page done, its text before the length cap
    fault,                  \* the call whose failure ended the extraction
    jobs,                   \* the invocations running side by side, one record each
    disk,                   \* temp_page_<i>.png of the working directory, and temp_uploads/
    response                \* what classify_document answered

classifierVars ==
    <<model, confidence_threshold, doc, pred, result, lastScores, ruleOut, ruleLog, calls>>

fieldVars == <<ftext, fields>>

ocrVars ==
    <<file, backend, max_chars_env, max_pages_env, pc, step, cand, cfg, best_text, best_conf,
      attempts, header_text, body_text, npages, page_i, extracted_text, temp_files, otext,
      raised, degraded, caught, run, prevBest, processed, untruncated, fault, jobs, disk,
      response>>

vars == <<classifierVars, fieldVars, ocrVars>>

(***************************************************************************)
(* Characters and strings                                                  *)
(***************************************************************************)
UpperChars == "ABCDEFGHIJKLMNOPQRSTUVWXYZ"
LowerChars == "abcdefghijklmnopqrstuvwxyz"
DigitChars == "0123456789"
SpaceChars == " \t\n\r\f"

Min(a, b) == IF a <= b THEN a ELSE b
Max(a, b) == IF a >= b THEN a ELSE b
SetMax(S) == CHOOSE x \in S : \A y \in S : y <= x
SetMin(S) == CHOOSE x \in S : \A y \in S : x <= y

CharAt(s, i) == SubSeq(s, i, i)
CharsOf(chars) == {CharAt(chars, i) : i \in 1..Len(chars)}
InStr(c, chars) == \E i \in 1..Len(chars) : CharAt(chars, i) = c
IndexIn(c, chars) == CHOOSE i \in 1..Len(chars) : CharAt(chars, i) = c

UpperSet == CharsOf(UpperChars)
LowerSet == CharsOf(LowerChars)
DigitSet == CharsOf(DigitChars)
SpaceSet == CharsOf(SpaceChars)
WordSet == UpperSet \cup LowerSet \cup DigitSet \cup {"_"}

IsSpace(c) == c \in SpaceSet
IsDigit(c) == c \in DigitSet
IsUpper(c) == c \in UpperSet
IsAlpha(c) == c \in UpperSet \/ c \in LowerSet
IsWordChar(c) == c \in WordSet

\* one character of str.lower() / str.upper()
ToLower == [c \in UpperSet |-> CharAt(LowerChars, IndexIn(c, UpperChars))]
ToUpper == [c \in LowerSet |-> CharAt(UpperChars, IndexIn(c, LowerChars))]
LowerChar(c) == IF c \in UpperSet THEN ToLower[c] ELSE c
UpperChar(c) == IF c \in LowerSet THEN ToUpper[c] ELSE c

\* str.lower() / str.upper(), character by character (split in halves)
RECURSIVE Lower(_)
Lower(s) ==
    IF s = "" THEN ""
    ELSE IF Len(s) = 1 THEN LowerChar(s)
    ELSE Lower(SubSeq(s, 1, Len(s) \div 2)) \o Lower(SubSeq(s, Len(s) \div 2 + 1, Len(s)))

RECURSIVE Upper(_)
Upper(s) ==
    IF s = "" THEN ""
    ELSE IF Len(s) = 1 THEN UpperChar(s)
    ELSE Upper(SubSeq(s, 1, Len(s) \div 2)) \o Upper(SubSeq(s, Len(s) \div 2 + 1, Len(s)))

\* needle in hay
Contains(hay, needle) ==
    \E i \in 1..(Len(hay) - Len(needle) + 1) : SubSeq(hay, i, i + Len(needle) - 1) = needle

\* any(word in hay for word in words)
ContainsAny(hay, words) == \E w \in words : Contains(hay, w)

\* str.strip(): drop leading and trailing whitespace
StripTo(s, keep) == IF keep = {} THEN "" ELSE SubSeq(s, SetMin(keep), SetMax(keep))
Strip(s) == StripTo(s, {i \in 1..Len(s) : ~IsSpace(CharAt(s, i))})

\* str.replace(old, new), leftmost non-overlapping occurrences
RECURSIVE Replace(_, _, _)
Replace(s, old, new) ==
    IF Len(s) < Len(old) THEN s
    ELSE IF SubSeq(s, 1, Len(old)) = old
         THEN new \o Replace(SubSeq(s, Len(old) + 1, Len(s)), old, new)
         ELSE CharAt(s, 1) \o Replace(SubSeq(s, 2, Len(s)), old, new)

(***************************************************************************)
(* Regular expressions: a pattern is a sequence of items                   *)
(*   lit  s        the literal s                                           *)
(*   opt  s        the literal s, optional                                 *)
(*   rep  c lo hi  lo..hi characters of class c                            *)
(*   wb            \b                                                      *)
(* After(it, s, p) is the set of positions the item can end at when it     *)
(* starts at p (a position is the index of the next character to read).    *)
(***************************************************************************)
Unbounded == 1000000

Lit(s) == [k |-> "lit", s |-> s, lo |-> 0, hi |-> 0]
Opt(s) == [k |-> "opt", s |-> s, lo |-> 0, hi |-> 0]
Rep(c, lo, hi) == [k |-> "rep", s |-> c, lo |-> lo, hi |-> hi]
Star(c) == Rep(c, 0, Unbounded)
WordB == [k |-> "wb", s |-> "", lo |-> 0, hi |-> 0]

InClass(cls, c) ==
    CASE cls = "space"   -> IsSpace(c)
      [] cls = "digit"   -> IsDigit(c)
      [] cls = "alpha"   -> IsAlpha(c)
      [] cls = "upper"   -> IsUpper(c)
      [] cls = "word"    -> IsWordChar(c)
      [] cls = "nonword" -> ~IsWordChar(c)
      [] OTHER           -> InStr(c, cls)

LitAt(s, p, lit) == p + Len(lit) - 1 <= Len(s) /\ SubSeq(s, p, p + Len(lit) - 1) = lit

WordAt(s, i) == i >= 1 /\ i <= Len(s) /\ IsWordChar(CharAt(s, i))

\* the position after the longest run of class cls that starts at p
RECURSIVE RunEnd(_, _, _)
RunEnd(cls, s, p) ==
    IF p <= Len(s) /\ InClass(cls, CharAt(s, p)) THEN RunEnd(cls, s, p + 1) ELSE p

After(it, s, p) ==
    CASE it.k = "lit" -> IF LitAt(s, p, it.s) THEN {p + Len(it.s)} ELSE {}
      [] it.k = "opt" -> {p} \cup (IF LitAt(s, p, it.s) THEN {p + Len(it.s)} ELSE {})
      [] it.k = "rep" -> (p + it.lo)..Min(p + it.hi, RunEnd(it.s, s, p))
      [] it.k = "wb"  -> IF WordAt(s, p - 1) # WordAt(s, p) THEN {p} ELSE {}

RECURSIVE EndsFrom(_, _, _, _)
EndsFrom(pat, k, s, P) ==
    IF k > Len(pat) \/ P = {} THEN P
    ELSE EndsFrom(pat, k + 1, s, UNION {After(pat[k], s, p) : p \in P})

MatchEnds(pat, s, p) == EndsFrom(pat, 1, s, {p})

\* re.search(pat, s) is not None
Search(pat, s) == \E p \in 1..(Len(s) + 1) : MatchEnds(pat, s, p) # {}

\* re.search(pat, s): the leftmost match, its quantifiers greedy
MatchAt(pat, s, p) == SubSeq(s, p, SetMax(MatchEnds(pat, s, p)) - 1)
FirstMatch(pat, s) == MatchAt(pat, s, SetMin({q \in 1..(Len(s) + 1) : MatchEnds(pat, s, q) # {}}))

\* re.findall(pat, s) for a pattern without groups: starts is the set of
\* positions a match can start at; matches are taken left to right, greedy,
\* the scan resuming where the last match ended
RECURSIVE FindAllIn(_, _, _, _)
TakeMatch(pat, s, starts, p, e) ==
    <<SubSeq(s, p, e - 1)>> \o FindAllIn(pat, s, starts, IF e = p THEN p + 1 ELSE e)
FindAllIn(pat, s, starts, from) ==
    IF \A q \in starts : q < from THEN <<>>
    ELSE TakeMatch(pat, s, starts, SetMin({q \in starts : q >= from}),
                   SetMax(MatchEnds(pat, s, SetMin({q \in starts : q >= from}))))

MatchStarts(pat, s) == {q \in 1..(Len(s) + 1) : MatchEnds(pat, s, q) # {}}

FindAll(pat, s) == FindAllIn(pat, s, MatchStarts(pat, s), 1)

\* re.sub(pat, repl, s) for a replacement without group references
RECURSIVE SubIn(_, _, _, _, _)
PutMatch(pat, repl, s, starts, from, p, e) ==
    SubSeq(s, from, p - 1) \o repl
    \o (IF e = p
        THEN SubSeq(s, p, Min(p, Len(s))) \o SubIn(pat, repl, s, starts, p + 1)
        ELSE SubIn(pat, repl, s, starts, e))
SubIn(pat, repl, s, starts, from) ==
    IF \A q \in starts : q < from THEN SubSeq(s, from, Len(s))
    ELSE PutMatch(pat, repl, s, starts, from, SetMin({q \in starts : q >= from}),
                  SetMax(MatchEnds(pat, s, SetMin({q \in starts : q >= from}))))

ReSub(pat, repl, s) == SubIn(pat, repl, s, MatchStarts(pat, s), 1)

(***************************************************************************)
(* ml_classifier.py: DocumentClassifier                                    *)
(***************************************************************************)
CATEGORIES ==
    << "Exam Form", "Acknowledgement Form", "Clearance", "Receipt", "Grade Sheet",
       "Enrollment Form", "ID Application", "Certificate Request", "Leave Form",
       "Syllabus Review Form", "Other" >>

CategorySet == {CATEGORIES[i] : i \in 1..Len(CATEGORIES)}

\* float(os.getenv('CONFIDENCE_THRESHOLD', 0.7)), in thousandths
DefaultThreshold == 700

\* len(text.strip()) < 10
MinTextLen == 10

\* a bug: the currency sign is required
AmountPatternDollarOnly == <<Lit("$"), Rep("digit", 1, Unbounded), Opt("."), Star("digit")>>

\* the patterns of extract_features
AmountPattern == <<Opt("$"), Rep("digit", 1, Unbounded), Opt("."), Star("digit")>>
DatePattern ==
    <<Rep("digit", 1, 2), Rep("/-", 1, 1), Rep("digit", 1, 2), Rep("/-", 1, 1), Rep("digit", 2, 4)>>
SyllabusReviewPattern == <<Lit("syllabus"), Rep("nonword", 0, 10), Lit("review")>>
ReviewSyllabusPattern == <<Lit("review"), Rep("nonword", 0, 10), Lit("syllabus")>>
UstpAcad12Pattern ==
    <<WordB, Opt("fm"), Star("space"), Opt("-"), Star("space"), Lit("ustp"),
      Star("space"), Opt("-"), Star("space"), Lit("acad"),
      Star("space"), Opt("-"), Star("space"), Lit("12"), WordB>>

FeaturesOf(text, text_lower) ==
        [ has_exam |-> ContainsAny(text_lower, {"exam", "examination", "test", "quiz"}),
          has_acknowledgement |->
              ContainsAny(text_lower, {"acknowledge", "acknowledgement", "received"}),
          has_clearance |-> ContainsAny(text_lower, {"clearance", "cleared", "no obligations"}),
          has_receipt |-> ContainsAny(text_lower, {"receipt", "payment", "amount", "paid"}),
          has_grade |-> ContainsAny(text_lower, {"grade", "marks", "score", "gpa"}),
          has_enrollment |-> ContainsAny(text_lower, {"enroll", "enrollment", "registration"}),
          has_id |-> ContainsAny(text_lower, {"id card", "identification", "student id"}),
          has_certificate |->
              ContainsAny(text_lower, {"certificate", "certification", "certify"}),
          has_leave |-> ContainsAny(text_lower, {"leave", "absence", "vacation"}),
          has_syllabus_title |-> Contains(text_lower, "syllabus review form"),
          has_syllabus_indicators_table |->
              /\ Contains(text_lower, "indicators") /\ Contains(text_lower, "remarks")
              /\ Contains(text_lower, "yes") /\ Contains(text_lower, "no"),
          has_syllabus_document_code |->
              Contains(text_lower, "fm-ustp-acad-12") \/ Contains(text_lower, "fm ustp acad 12"),
          has_syllabus_title_fuzzy |->
              Search(SyllabusReviewPattern, text_lower) \/ Search(ReviewSyllabusPattern, text_lower),
          has_ustp_acad_12 |-> Search(UstpAcad12Pattern, text_lower),
          has_directions_yes |-> Contains(text_lower, "directions") /\ Contains(text_lower, "yes"),
          has_university_header |->
              Contains(text_lower, "university of science and technology of southern philippines"),
          has_course_code |-> Contains(text_lower, "course code"),
          has_faculty |-> Contains(text_lower, "faculty"),
          has_amount |-> Search(AmountPattern, text),
          has_date |-> Search(DatePattern, text),
          has_signature |-> Contains(text_lower, "signature") \/ Contains(text_lower, "signed") ]

extract_features(text) == FeaturesOf(text, Lower(text))

\* features.get(key): a key extract_features never sets reads as None
FeatureGet(features, key) == IF key \in DOMAIN features THEN features[key] ELSE FALSE

Pts(cond, n) == IF cond THEN n ELSE 0

\* a bug: the scores dict is kept on the classifier and not reset per call
StaleScores == lastScores

\* scores = {category: 0 for category in self.CATEGORIES}
InitialScores == [c \in CategorySet |-> 0]

\* the keyword rules of the nine form categories
KeywordPoints(features, text_lower) ==
    [c \in CategorySet |->
        CASE c = "Exam Form" ->
                 Pts(features.has_exam, 3)
                 + Pts(Contains(text_lower, "examination") /\ Contains(text_lower, "form"), 2)
          [] c = "Acknowledgement Form" ->
                 Pts(features.has_acknowledgement, 3)
                 + Pts(features.has_signature /\ Contains(text_lower, "acknowledge"), 2)
          [] c = "Clearance" ->
                 Pts(features.has_clearance, 4)
                 + Pts(Contains(text_lower, "cleared") \/ Contains(text_lower, "no pending"), 2)
          [] c = "Receipt" ->
                 Pts(features.has_receipt, 3)
                 + Pts(features.has_amount
                       /\ (Contains(text_lower, "paid") \/ Contains(text_lower, "payment")), 3)
          [] c = "Grade Sheet" ->
                 Pts(features.has_grade, 3)
                 + Pts(Contains(text_lower, "transcript") \/ Contains(text_lower, "report card"), 2)
          [] c = "Enrollment Form" ->
                 Pts(features.has_enrollment, 3)
                 + Pts(Contains(text_lower, "enroll") /\ Contains(text_lower, "subject"), 2)
          [] c = "ID Application" ->
                 Pts(features.has_id, 4)
                 + Pts(Contains(text_lower, "student id")
                       \/ Contains(text_lower, "id application"), 2)
          [] c = "Certificate Request" ->
                 Pts(features.has_certificate, 3)
                 + Pts(Contains(text_lower, "request") /\ Contains(text_lower, "certificate"), 2)
          [] c = "Leave Form" ->
                 Pts(features.has_leave, 3)
                 + Pts(Contains(text_lower, "leave application")
                       \/ Contains(text_lower, "absence"), 2)
          [] OTHER -> 0]

\* syllabus_signals
SyllabusSignals(features) ==
      Pts(FeatureGet(features, "has_syllabus_title"), 4)
    + Pts(FeatureGet(features, "has_syllabus_title_fuzzy"), 2)
    + Pts(FeatureGet(features, "has_syllabus_document_code"), 3)
    + Pts(FeatureGet(features, "has_ustp_acad_12"), 3)
    + Pts(FeatureGet(features, "has_syllabus_indicators_table"), 2)
    + Pts(FeatureGet(features, "has_reviewed_by"), 1)
    + Pts(FeatureGet(features, "has_plan_of_action"), 1)
    + Pts(FeatureGet(features, "has_directions_yes"), 1)
    + Pts(FeatureGet(features, "has_university_header"), 1)
    + Pts(FeatureGet(features, "has_course_code"), 1)
    + Pts(FeatureGet(features, "has_faculty"), 1)

\* a bug: the down-weight is 1 point
DownWeightGradeByOne(g) == Max(0, g - 1)

\* scores['Grade Sheet'] = max(0, scores['Grade Sheet'] - 3)
DownWeightGrade(g) == Max(0, g - 3)

\* a bug: the Grade Sheet score is down-weighted whether or not the composite fires
AdjustUnconditionally(scores, signals) ==
    [c \in CategorySet |->
        CASE c = "Syllabus Review Form" -> scores[c] + signals
          [] c = "Grade Sheet" -> DownWeightGrade(scores[c])
          [] OTHER -> scores[c]]

\* if syllabus_signals > 0: ...
AdjustForSyllabus(scores, signals) ==
    IF signals > 0
    THEN [c \in CategorySet |->
            CASE c = "Syllabus Review Form" -> scores[c] + signals
              [] c = "Grade Sheet" -> IF scores[c] > 0 THEN DownWeightGrade(scores[c]) ELSE scores[c]
              [] OTHER -> scores[c]]
    ELSE scores

\* the keyword rules applied to the fresh scores dict, then the syllabus block
AddPoints(scores, pts) == [c \in CategorySet |-> scores[c] + pts[c]]

ScoresFrom(features, text_lower) ==
    AdjustForSyllabus(AddPoints(InitialScores, KeywordPoints(features, text_lower)),
                      SyllabusSignals(features))

\* the scores dict when rule_based_classification reaches its last block
RuleScores(text) == ScoresFrom(extract_features(text), Lower(text))

\* max(scores.values())
MaxScore(scores) == SetMax({scores[c] : c \in CategorySet})

\* a bug: of the keys with the greatest value, the last one wins
ArgMaxLast(scores) ==
    CATEGORIES[SetMax({i \in 1..Len(CATEGORIES) : \A c \in CategorySet : scores[c] <= scores[CATEGORIES[i]]})]

\* max(scores, key=scores.get): the first key, in insertion order, with the greatest value
ArgMaxFirst(scores) ==
    CATEGORIES[SetMin({i \in 1..Len(CATEGORIES) : \A c \in CategorySet : scores[c] <= scores[CATEGORIES[i]]})]

\* a bug: a winner with a single rule is reported as Other
DecideWeakAsOther(scores, max_score) ==
    IF max_score <= 3
    THEN [document_type |-> "Other", confidence |-> 500, scores |-> scores]
    ELSE [document_type |-> ArgMaxFirst(scores),
          confidence |-> Min(max_score * 100, 1000),
          scores |-> scores]

\* the last block of rule_based_classification: confidence in thousandths
Decide(scores, max_score) ==
    IF max_score = 0
    THEN [document_type |-> "Other", confidence |-> 500, scores |-> scores]
    ELSE [document_type |-> ArgMaxFirst(scores),
          confidence |-> Min(max_score * 100, 1000),
          scores |-> scores]

\* a bug: the confidence is not capped at 1.0
DecideFromUncapped(scores) ==
    [Decide(scores, MaxScore(scores)) EXCEPT
        !.confidence = IF MaxScore(scores) = 0 THEN 500 ELSE MaxScore(scores) * 100]

DecideFrom(scores) == Decide(scores, MaxScore(scores))

\* rule_based_classification(text)
rule_based_classification(text) == DecideFrom(RuleScores(text))

\* extract_keywords
KeywordPattern == <<WordB, Rep("alpha", 4, Unbounded), WordB>>
StopWords ==
    {"this", "that", "with", "from", "have", "been", "will",
     "would", "could", "should", "about", "their", "there"}
TopN == 5

SeqToSet(s) == {s[i] : i \in 1..Len(s)}
CountOf(w, words) == Cardinality({i \in 1..Len(words) : words[i] = w})

\* the keys of word_freq, in insertion order
RECURSIVE FirstOccurrences(_, _)
FirstOccurrences(words, seen) ==
    IF words = <<>> THEN <<>>
    ELSE IF Head(words) \in seen \/ Head(words) \in StopWords
         THEN FirstOccurrences(Tail(words), seen)
         ELSE <<Head(words)>> \o FirstOccurrences(Tail(words), seen \cup {Head(words)})

\* sorted(items, key=count, reverse=True): stable, so ties keep insertion order
RECURSIVE SortByCountDesc(_, _)
TakeAt(keys, counts, j) ==
    <<keys[j]>> \o SortByCountDesc(SubSeq(keys, 1, j - 1) \o SubSeq(keys, j + 1, Len(keys)),
                                   SubSeq(counts, 1, j - 1) \o SubSeq(counts, j + 1, Len(counts)))
SortByCountDesc(keys, counts) ==
    IF keys = <<>> THEN <<>>
    ELSE TakeAt(keys, counts,
                SetMin({i \in 1..Len(keys) : \A k \in 1..Len(keys) : counts[k] <= counts[i]}))

CountsOf(keys, words) == [i \in 1..Len(keys) |-> CountOf(keys[i], words)]
SortedWords(keys, words) == SortByCountDesc(keys, CountsOf(keys, words))
\* a bug: the words are left in order of first occurrence
KeywordsUnsorted(words) == FirstOccurrences(words, {})

KeywordsOf(words) == SortedWords(FirstOccurrences(words, {}), words)
FirstN(s, n) == SubSeq(s, 1, Min(n, Len(s)))

extract_keywords(text) == FirstN(KeywordsOf(FindAll(KeywordPattern, Lower(text))), TopN)

\* round(confidence, 2): thousandths to hundredths, ties to even
Round2(pm) ==
    LET q == pm \div 10
        r == pm % 10
    IN  IF r < 5 THEN q
        ELSE IF r > 5 THEN q + 1
        ELSE IF q % 2 = 0 THEN q ELSE q + 1

\* an input text: None, or a string
NoText == [some |-> FALSE, val |-> ""]
SomeText(s) == [some |-> TRUE, val |-> s]

\* a bug: the length is taken before trimming
InsufficientTextUntrimmed(d) == ~d.some \/ d.val = "" \/ Len(d.val) < MinTextLen

\* if not text or len(text.strip()) < 10
InsufficientText(d) == ~d.some \/ d.val = "" \/ Len(Strip(d.val)) < MinTextLen

\* a bug: a probability equal to the threshold falls back
BelowOrAtThreshold(confidence, threshold) == confidence <= threshold

\* if confidence < self.confidence_threshold
BelowThreshold(confidence, threshold) == confidence < threshold

\* the result of the rule engine, as classify packs it
PackRule(rb, text, method) ==
    [document_type |-> rb.document_type,
     confidence |-> Round2(rb.confidence),
     keywords |-> extract_keywords(text),
     method |-> method]

RuleResult(text, method) == PackRule(rule_based_classification(text), text, method)

\* a bug: the low-confidence branch keeps the model's label
ClassifyWithModelKeepsLabel(text, threshold, answer) ==
    IF answer.raises THEN RuleResult(text, "rule_based_error_fallback")
    ELSE IF BelowThreshold(answer.prob, threshold)
         THEN [RuleResult(text, "rule_based_fallback") EXCEPT !.document_type = answer.label]
    ELSE [document_type |-> answer.label,
          confidence |-> Round2(answer.prob),
          keywords |-> extract_keywords(text),
          method |-> "ml_model"]

\* the branch of classify taken when self.model is not None; answer is what the
\* model does: raise, or predict answer.label with top probability answer.prob
ClassifyWithModel(text, threshold, answer) ==
    IF answer.raises THEN RuleResult(text, "rule_based_error_fallback")
    ELSE IF BelowThreshold(answer.prob, threshold) THEN RuleResult(text, "rule_based_fallback")
    ELSE [document_type |-> answer.label,
          confidence |-> Round2(answer.prob),
          keywords |-> extract_keywords(text),
          method |-> "ml_model"]

\* classify(text)
classify(d, mdl, threshold, answer) ==
    IF InsufficientText(d)
    THEN [document_type |-> "Other", confidence |-> 0, keywords |-> <<>>,
          method |-> "insufficient_text"]
    ELSE IF mdl # "none" THEN ClassifyWithModel(d.val, threshold, answer)
    ELSE RuleResult(d.val, "rule_based")


(***************************************************************************)
(* field_extractor.py: FieldExtractor                                      *)
(***************************************************************************)
\* stand-ins for U+2014 and U+2013, which a TLA+ string cannot hold
EmDash == "^"
EnDash == "~"

\* re.sub(r"\s+", " ", t)
SpaceRun == <<Rep("space", 1, Unbounded)>>

\* FieldExtractor._norm
Norm(text) ==
    IF text = "" THEN ""
    ELSE Strip(ReSub(SpaceRun, " ", Replace(Replace(text, EmDash, "-"), EnDash, "-")))

\* f?m\s*-?\s*ustp\s*-?\s*acad\s*-?\s*12
DocCodePattern ==
    <<Opt("f"), Lit("m"), Star("space"), Opt("-"), Star("space"), Lit("ustp"),
      Star("space"), Opt("-"), Star("space"), Lit("acad"),
      Star("space"), Opt("-"), Star("space"), Lit("12")>>

\* ([A-Z]+)(USTP)(ACAD)(12)
GluedCodePattern == <<Rep("upper", 1, Unbounded), Lit("USTP"), Lit("ACAD"), Lit("12")>>

\* re.sub(r"\s*", "", s): every whitespace character goes
RECURSIVE RemoveSpaces(_)
RemoveSpaces(s) ==
    IF s = "" THEN ""
    ELSE (IF IsSpace(CharAt(s, 1)) THEN "" ELSE CharAt(s, 1)) \o RemoveSpaces(SubSeq(s, 2, Len(s)))

Canonical == "FM-USTP-ACAD-12"
NoValue == "<None>"

\* doc_code from s.upper(): the two replace calls, then the re.sub when they
\* changed nothing
Canonicalize(up) ==
    IF Replace(Replace(up, "FMUSTPACAD12", Canonical), "MUSTPACAD12", "M-USTP-ACAD-12") = up
    THEN ReSub(GluedCodePattern, Canonical, up)
    ELSE Replace(Replace(up, "FMUSTPACAD12", Canonical), "MUSTPACAD12", "M-USTP-ACAD-12")

\* the document_code entry of extract_syllabus_review(text)
DocumentCode(d) ==
    IF Search(DocCodePattern, Lower(Norm(IF d.some THEN d.val ELSE "")))
    THEN Canonicalize(Upper(RemoveSpaces(
             FirstMatch(DocCodePattern, Lower(Norm(IF d.some THEN d.val ELSE ""))))))
    ELSE NoValue

\* str.join
RECURSIVE Join(_, _)
Join(sep, ws) ==
    IF ws = <<>> THEN ""
    ELSE IF Len(ws) = 1 THEN ws[1]
    ELSE ws[1] \o sep \o Join(sep, Tail(ws))

\* if v: a value that is neither None nor empty
Truthy(v) == v # NoValue /\ v # ""

\* str.title(): a letter is upper-cased after a non-letter, lower-cased after a letter
TitleChar(s, i) ==
    IF i > 1 /\ IsAlpha(CharAt(s, i - 1)) THEN LowerChar(CharAt(s, i)) ELSE UpperChar(CharAt(s, i))
RECURSIVE TitleRange(_, _, _)
TitleRange(s, lo, hi) ==
    IF lo > hi THEN ""
    ELSE IF lo = hi THEN TitleChar(s, lo)
    ELSE TitleRange(s, lo, (lo + hi) \div 2) \o TitleRange(s, (lo + hi) \div 2 + 1, hi)
Title(s) == TitleRange(s, 1, Len(s))

\* str.capitalize()
Capitalize(w) == IF w = "" THEN "" ELSE UpperChar(CharAt(w, 1)) \o Lower(SubSeq(w, 2, Len(w)))

\* str.strip(chars)
StripChars(s, chars) == StripTo(s, {i \in 1..Len(s) : ~InStr(CharAt(s, i), chars)})

\* re.split(pat, s) for a pattern that matches no empty string
RECURSIVE SplitIn(_, _, _, _)
CutAt(pat, s, starts, from, p) ==
    <<SubSeq(s, from, p - 1)>> \o SplitIn(pat, s, starts, SetMax(MatchEnds(pat, s, p)))
SplitIn(pat, s, starts, from) ==
    IF \A q \in starts : q < from THEN <<SubSeq(s, from, Len(s))>>
    ELSE CutAt(pat, s, starts, from, SetMin({q \in starts : q >= from}))
ReSplit(pat, s) == SplitIn(pat, s, MatchStarts(pat, s), 1)

\* a match of "prefix(alt1|alt2|...)suffix" as re.search finds it: the span of
\* the group.  The prefixes are the ways the part before the group can be read
\* (its optional items taken or not); of the places the group can start at, the
\* one furthest to the right is the one the greedy prefix reaches first; the
\* alternatives are tried in order, each greedy.
NoSpan == [found |-> FALSE, from |-> 1, to |-> 0]
AltEnds(alt, suffix, s, g) == {e \in MatchEnds(alt, s, g) : MatchEnds(suffix, s, e) # {}}
AltsAt(alts, suffix, s, g) == {i \in DOMAIN alts : AltEnds(alts[i], suffix, s, g) # {}}
GroupStarts(prefixes, alts, suffix, s, q) ==
    {g \in UNION {MatchEnds(pre, s, q) : pre \in prefixes} : AltsAt(alts, suffix, s, g) # {}}
SpanFrom(alts, suffix, s, g) ==
    [found |-> TRUE, from |-> g,
     to |-> SetMax(AltEnds(alts[SetMin(AltsAt(alts, suffix, s, g))], suffix, s, g)) - 1]
SpanAt(prefixes, alts, suffix, s, starts) ==
    IF starts = {} THEN NoSpan
    ELSE SpanFrom(alts, suffix, s, SetMax(GroupStarts(prefixes, alts, suffix, s, SetMin(starts))))
GroupSpan(prefixes, alts, suffix, s) ==
    SpanAt(prefixes, alts, suffix, s,
           {q \in 1..(Len(s) + 1) : GroupStarts(prefixes, alts, suffix, s, q) # {}})

\* a match of "prefix(.+?)(?=\s{2,}|stop1|stop2|...|$)": the group starts where
\* the greedy prefix ends and is the shortest text of one character or more
\* that a stop, two blanks or the end of the text follows
StopAt(stops, s, e) ==
    \/ e = Len(s) + 1
    \/ \E st \in stops : LitAt(s, e, st)
    \/ e < Len(s) /\ IsSpace(CharAt(s, e)) /\ IsSpace(CharAt(s, e + 1))
LazyStarts(prefix, s, q) == {g \in MatchEnds(prefix, s, q) : g <= Len(s)}
LazyFrom(stops, s, g) ==
    [found |-> TRUE, from |-> g,
     to |-> SetMin({e \in (g + 1)..(Len(s) + 1) : StopAt(stops, s, e)}) - 1]
LazyAt(prefix, stops, s, starts) ==
    IF starts = {} THEN NoSpan
    ELSE LazyFrom(stops, s, SetMax(LazyStarts(prefix, s, SetMin(starts))))
LazySpan(prefix, stops, s) ==
    LazyAt(prefix, stops, s, {q \in 1..(Len(s) + 1) : LazyStarts(prefix, s, q) # {}})

\* FieldExtractor._get_first: the group of the match, stripped, or None;
\* span is the match found on the text or on its lower-cased form (IGNORECASE)
SpanText(text, span) == SubSeq(text, span.from, span.to)
GetFirst(span, text) == IF span.found THEN Strip(SpanText(text, span)) ELSE NoValue

\* course\s*code\s*[:\-]\s*([A-Z]{2,4}\s*-?\s*\d{2,5}|\d{4,6}), IGNORECASE
CourseLabel ==
    <<Lit("course"), Star("space"), Lit("code"), Star("space"), Rep(":-", 1, 1), Star("space")>>
LabeledCourseCodes ==
    << <<Rep("alpha", 2, 4), Star("space"), Opt("-"), Star("space"), Rep("digit", 2, 5)>>,
       <<Rep("digit", 4, 6)>> >>

\* \b([A-Z]{2,4}\s*-?\s*\d{2,5}|\b\d{4,6}\b), case-sensitive
AnyCourseCodes ==
    << <<Rep("upper", 2, 4), Star("space"), Opt("-"), Star("space"), Rep("digit", 2, 5)>>,
       <<WordB, Rep("digit", 4, 6), WordB>> >>

\* course_code = course_code.replace(" ", "") if course_code
CourseCodeOf(labeled, norm) ==
    IF Truthy(labeled) THEN Replace(labeled, " ", "")
    ELSE IF GroupSpan({<<WordB>>}, AnyCourseCodes, <<>>, norm).found
    THEN Replace(SpanText(norm, GroupSpan({<<WordB>>}, AnyCourseCodes, <<>>, norm)), " ", "")
    ELSE labeled

CourseCode(norm) ==
    CourseCodeOf(GetFirst(GroupSpan({CourseLabel}, LabeledCourseCodes, <<>>, Lower(norm)), norm),
                 norm)

\* \b(\d(?:st|nd|rd|th)?\s*semester)\b
SemesterForms ==
    [i \in 1..5 |->
        <<Rep("digit", 1, 1), Lit(<<"st", "nd", "rd", "th", "">>[i]), Star("space"),
          Lit("semester"), WordB>>]

\* \b(1st|2nd|3rd|4th)\b\s*semester
Ordinals == <<<<Lit("1st")>>, <<Lit("2nd")>>, <<Lit("3rd")>>, <<Lit("4th")>>>>
OrdinalSuffix == <<WordB, Star("space"), Lit("semester")>>

SemesterOf(first, lower) ==
    IF Truthy(first) THEN first
    ELSE GetFirst(GroupSpan({<<WordB>>}, Ordinals, OrdinalSuffix, lower), lower)

Semester(lower) ==
    SemesterOf(GetFirst(GroupSpan({<<WordB>>}, SemesterForms, <<>>, lower), lower), lower)

\* an attribute of None is read
AttributeError == "<AttributeError>"

\* a slip: semester.title() without the test of semester
TitleUnguarded(v) == IF v = NoValue THEN AttributeError ELSE Title(v)

\* semester.title() if semester else None
TitleIf(v) == IF Truthy(v) THEN Title(v) ELSE NoValue

\* \bAY\s*(\d{4})\s*[-/]\s*(\d{4})\b, IGNORECASE: the last group
AyPrefix ==
    <<WordB, Lit("ay"), Star("space"), Rep("digit", 4, 4), Star("space"), Rep("-/", 1, 1),
      Star("space")>>
Year == <<Rep("digit", 4, 4)>>

\* \b(\d{4})\b
BoundedYear == <<WordB, Rep("digit", 4, 4), WordB>>

\* the if/else on ay: g is the list the branch taken finds
AcademicYearOf(ay, norm, lower) ==
    IF Truthy(ay) /\ Contains(ay, " ")
    THEN (IF Len(FindAll(Year, ay)) >= 2
          THEN FindAll(Year, ay)[1] \o "-" \o FindAll(Year, ay)[2]
          ELSE ay)
    ELSE IF Len(FindAll(BoundedYear, norm)) >= 2 /\ Contains(lower, "ay")
    THEN FindAll(BoundedYear, norm)[1] \o "-" \o FindAll(BoundedYear, norm)[2]
    ELSE ay

AcademicYear(norm, lower) ==
    AcademicYearOf(GetFirst(GroupSpan({AyPrefix}, <<Year>>, <<WordB>>, lower), norm), norm, lower)

\* descriptive\s*title\s*[:\-]\s*(.+?)(?=\s{2,}| faculty| directions| part |$)
TitleLabel ==
    <<Lit("descriptive"), Star("space"), Lit("title"), Star("space"), Rep(":-", 1, 1),
      Star("space")>>
TitleStops == {" faculty", " directions", " part "}

\* descriptive_title.title() if descriptive_title
DescriptiveTitleOf(v) == IF Truthy(v) THEN Title(v) ELSE v
DescriptiveTitle(lower) == DescriptiveTitleOf(GetFirst(LazySpan(TitleLabel, TitleStops, lower), lower))

\* faculty\s*[:\-]\s*(.+?)(?=\s{2,}| directions| part |$)
FacultyLabel == <<Lit("faculty"), Star("space"), Rep(":-", 1, 1), Star("space")>>
FacultyStops == {" directions", " part "}

\* [,;]\s*  and  \s+
NameSeparator == <<Rep(",;", 1, 1), Star("space")>>
Blanks == <<Rep("space", 1, Unbounded)>>

\* seq with f applied to every element
RECURSIVE MapSeq(_, _)
MapSeq(f(_), seq) == IF seq = <<>> THEN <<>> ELSE <<f(Head(seq))>> \o MapSeq(f, Tail(seq))

\* FieldExtractor._split_names
TrimName(part) == StripChars(part, " ,;\n\t")
SplitNames(blob) ==
    SelectSeq(MapSeq(TrimName, SelectSeq(ReSplit(NameSeparator, blob), LAMBDA part : Strip(part) # "")),
              LAMBDA part : Len(part) >= 2)

\* " ".join([w.capitalize() for w in re.split(r"\s+", n)])
CapitalizeWords(n) == Join(" ", MapSeq(Capitalize, ReSplit(Blanks, n)))

FacultyOf(blob) == IF Truthy(blob) THEN MapSeq(CapitalizeWords, SplitNames(blob)) ELSE <<>>
Faculty(lower) == FacultyOf(GetFirst(LazySpan(FacultyLabel, FacultyStops, lower), lower))

\* reviewed\s*by\s*[:\-]?\s*([A-Za-z .,'-]{3,}), IGNORECASE
ReviewedLabel ==
    <<Lit("reviewed"), Star("space"), Lit("by"), Star("space"), Rep(":-", 0, 1), Star("space")>>
NameChars == UpperChars \o LowerChars \o " .,'-"
ReviewerName == <<Rep(NameChars, 3, Unbounded)>>
ReviewedBy(norm) == GetFirst(GroupSpan({ReviewedLabel}, <<ReviewerName>>, <<>>, Lower(norm)), norm)

\* date\s*(?:of\s*review)?\s*[:\-]?\s*(\d{1,2}[/-]\d{1,2}[/-]\d{2,4}|\w+\s+\d{1,2},\s*\d{4}),
\* IGNORECASE: the label without and with "of review"
DateLabels ==
    { <<Lit("date"), Star("space"), Star("space"), Rep(":-", 0, 1), Star("space")>>,
      <<Lit("date"), Star("space"), Lit("of"), Star("space"), Lit("review"), Star("space"),
        Rep(":-", 0, 1), Star("space")>> }
DateForms ==
    << <<Rep("digit", 1, 2), Rep("/-", 1, 1), Rep("digit", 1, 2), Rep("/-", 1, 1), Rep("digit", 2, 4)>>,
       <<Rep("word", 1, Unbounded), Rep("space", 1, Unbounded), Rep("digit", 1, 2), Lit(","),
         Star("space"), Rep("digit", 4, 4)>> >>
ReviewDate(norm) == GetFirst(GroupSpan(DateLabels, DateForms, <<>>, Lower(norm)), norm)

\* \byes\b and \bno\b
YesWord == <<WordB, Lit("yes"), WordB>>
NoWord == <<WordB, Lit("no"), WordB>>

\* the names of _debug_present_fields, in the order of the dict
FieldNames ==
    << "document_code", "course_code", "semester", "academic_year", "descriptive_title",
       "faculty", "reviewed_by", "review_date" >>

\* a bug: every field that is not None is listed
PresentFieldsNotNone(vals) ==
    SelectSeq(FieldNames, LAMBDA k : k = "faculty" \/ vals[k] # NoValue)

\* [k for k, v in {...}.items() if v]
Present(vals, k) == IF k = "faculty" THEN vals[k] # <<>> ELSE Truthy(vals[k])
PresentFields(vals) == SelectSeq(FieldNames, LAMBDA k : Present(vals, k))

\* the values the return statement reads, from norm and lower
FieldValues(d, norm, lower) ==
    [document_code |-> DocumentCode(d),
     course_code |-> CourseCode(norm),
     semester |-> Semester(lower),
     academic_year |-> AcademicYear(norm, lower),
     descriptive_title |-> DescriptiveTitle(lower),
     faculty |-> Faculty(lower),
     reviewed_by |-> ReviewedBy(norm),
     review_date |-> ReviewDate(norm)]

\* the dict extract_syllabus_review returns, or the exception that leaves it
Returns(vals, lower, semester) ==
    IF semester = AttributeError
    THEN [raised |-> AttributeError]
    ELSE [raised |-> "none",
          document_code |-> vals.document_code,
          course_code |-> vals.course_code,
          semester |-> semester,
          academic_year |-> vals.academic_year,
          descriptive_title |-> vals.descriptive_title,
          faculty |-> vals.faculty,
          reviewed_by |-> vals.reviewed_by,
          review_date |-> vals.review_date,
          indicators_table |-> Contains(lower, "indicators") /\ Contains(lower, "remarks"),
          yes_count |-> Len(FindAll(YesWord, lower)),
          no_count |-> Len(FindAll(NoWord, lower)),
          debug_present_fields |-> PresentFields(vals)]

ReturnsFrom(vals, lower) == Returns(vals, lower, TitleIf(vals.semester))

FieldsFrom(d, norm) == ReturnsFrom(FieldValues(d, norm, Lower(norm)), Lower(norm))

\* FieldExtractor.extract_syllabus_review(text)
extract_syllabus_review(d) == FieldsFrom(d, Norm(IF d.some THEN d.val ELSE ""))

(***************************************************************************)
(* ocr_engine.py: OCREngine                                                *)
(***************************************************************************)
\* a per-word confidence as the backend reports it: a number, or something
\* int() rejects
Conf(n) == [num |-> TRUE, val |-> n]
BadConf == [num |-> FALSE, val |-> 0]

\* what the backend does for one image and config: image_to_data raises or
\* returns word texts and confidences; image_to_string raises or returns a string
Data(words, confs, plain) ==
    [data_raises |-> FALSE, text |-> words, conf |-> confs, plain_raises |-> FALSE, plain |-> plain]
DataOnly(words, confs) ==
    [data_raises |-> FALSE, text |-> words, conf |-> confs, plain_raises |-> TRUE, plain |-> ""]
PlainOnly(plain) ==
    [data_raises |-> TRUE, text |-> <<>>, conf |-> <<>>, plain_raises |-> FALSE, plain |-> plain]
BackendDown ==
    [data_raises |-> TRUE, text |-> <<>>, conf |-> <<>>, plain_raises |-> TRUE, plain |-> ""]

\* words = [w for w in data['text'] if isinstance(w, str) and w.strip()]
WordsOf(r) == SelectSeq(r.text, LAMBDA w : Strip(w) # "")

\* confs: the values int() accepts that are >= 0
ConfsOf(r) ==
    LET kept == SelectSeq(r.conf, LAMBDA c : c.num /\ c.val >= 0)
    IN  [i \in DOMAIN kept |-> kept[i].val]

RECURSIVE SortInts(_)
SortInts(s) ==
    IF s = <<>> THEN <<>>
    ELSE LET m == SetMin({s[i] : i \in DOMAIN s})
             k == CHOOSE i \in DOMAIN s : s[i] = m
         IN  <<m>> \o SortInts(SubSeq(s, 1, k - 1) \o SubSeq(s, k + 1, Len(s)))

\* confidences are kept in half points: np.median of integers is a multiple of 0.5
HalfPoints(n) == 2 * n

\* float(np.median(confs)) if confs else 0.0
MedianOfSorted(sorted, n) ==
    IF n = 0 THEN 0
    ELSE IF n % 2 = 1 THEN HalfPoints(sorted[(n + 1) \div 2])
    ELSE sorted[n \div 2] + sorted[n \div 2 + 1]
MedianConf(confs) == MedianOfSorted(SortInts(confs), Len(confs))

\* the except branch of _ocr_text_and_conf: image_to_string alone, confidence 0.0
PlainFallback(r) ==
    IF r.plain_raises THEN [text |-> "", conf |-> 0]
    ELSE [text |-> Strip(r.plain), conf |-> 0]

\* the try branch once the words are joined
StructuredResult(r, text, median_conf) ==
    IF text # "" THEN [text |-> text, conf |-> median_conf]
    ELSE IF r.plain_raises THEN PlainFallback(r)
    ELSE [text |-> Strip(r.plain), conf |-> median_conf]

\* _ocr_text_and_conf(img_np, config), r being what the backend does for them
OcrTextAndConf(r) ==
    IF r.data_raises THEN PlainFallback(r)
    ELSE StructuredResult(r, Strip(Join(" ", WordsOf(r))), MedianConf(ConfsOf(r)))

\* candidates (line 206) and configs (lines 207-214)
NumVariants == 15
NumConfigs == 6
Pairs == (1..NumVariants) \X (1..NumConfigs)

\* best_conf = -1.0
InitialBestConf == 0 - HalfPoints(1)

\* a slip: on equal confidence a candidate of equal length also replaces the best
BetterOrSameLength(conf, text, bconf, btext) ==
    conf > bconf \/ (conf = bconf /\ Len(text) >= Len(btext))

\* if conf > best_conf or (conf == best_conf and len(text) > len(best_text))
Better(conf, text, bconf, btext) ==
    conf > bconf \/ (conf = bconf /\ Len(text) > Len(btext))

\* int(s) for the strings an environment variable can hold: optional sign, digits
DigitsValue(s, n) ==
    IF n = 0 THEN [ok |-> FALSE, val |-> 0]
    ELSE IF \E i \in 1..n : ~IsDigit(CharAt(s, i)) THEN [ok |-> FALSE, val |-> 0]
    ELSE [ok |-> TRUE,
          val |-> LET RECURSIVE V(_)
                      V(k) == IF k = 0 THEN 0 ELSE 10 * V(k - 1) + (IndexIn(CharAt(s, k), DigitChars) - 1)
                  IN  V(n)]
ParseSigned(s) ==
    IF s # "" /\ CharAt(s, 1) \in {"-", "+"}
    THEN LET d == DigitsValue(SubSeq(s, 2, Len(s)), Len(s) - 1)
         IN  [ok |-> d.ok, val |-> IF CharAt(s, 1) = "-" THEN 0 - d.val ELSE d.val]
    ELSE DigitsValue(s, Len(s))
ParseInt(s) == ParseSigned(Strip(s))

\* an environment variable: unset, or a string
Unset == [set |-> FALSE, val |-> ""]
EnvValue(s) == [set |-> TRUE, val |-> s]

\* int(env) if env else default, and default when int() raises
IntSetting(env, default) ==
    IF ~env.set \/ env.val = "" THEN default
    ELSE IF ParseInt(env.val).ok THEN ParseInt(env.val).val
    ELSE default

DefaultMaxChars == 1500
DefaultMaxPages == 1

\* s[:n]
PrefixSlice(s, n) ==
    IF n >= 0 THEN SubSeq(s, 1, Min(n, Len(s)))
    ELSE SubSeq(s, 1, Max(Len(s) + n, 0))

\* if len(text) > max_chars: text = text[:max_chars]
Truncate(text, max_chars) == IF Len(text) > max_chars THEN PrefixSlice(text, max_chars) ELSE text

\* a slip: the empty pieces are joined as well
JoinAllPieces(header, best, body) == Strip(Join("\n\n", <<header, best, body>>))

\* pieces = [p for p in [header_text, best_text, body_text] if p]; the joined
\* and stripped text
JoinPieces(header, best, body) ==
    Strip(Join("\n\n", SelectSeq(<<header, best, body>>, LAMBDA p : p # "")))

\* the text once cut to max_chars
MergePieces(header, best, body, max_chars) == Truncate(JoinPieces(header, best, body), max_chars)

\* a slip: every page is processed
PagesToProcessAll(n, max_pages) == n

\* pages[: max(1, max_pages)]
PagesToProcess(n, max_pages) == Min(n, Max(1, max_pages))

\* the steps of extract_text_from_image before the search, in order, and whether
\* the step has an exception handler of its own
ImageSteps ==
    << [name |-> "imread", guarded |-> FALSE],
       [name |-> "cvtColor", guarded |-> FALSE],
       [name |-> "image_to_osd", guarded |-> TRUE],
       [name |-> "equalizeHist", guarded |-> TRUE],
       [name |-> "resize", guarded |-> FALSE],
       [name |-> "_crop_to_content", guarded |-> TRUE],
       [name |-> "threshold", guarded |-> FALSE],
       [name |-> "fastNlMeansDenoising", guarded |-> FALSE],
       [name |-> "dilate", guarded |-> FALSE],
       [name |-> "adaptiveThreshold", guarded |-> TRUE],
       [name |-> "morphologyEx_open", guarded |-> FALSE],
       [name |-> "morphologyEx_close", guarded |-> FALSE],
       [name |-> "bitwise_not_den", guarded |-> FALSE],
       [name |-> "bitwise_not_adaptive", guarded |-> FALSE],
       [name |-> "_remove_lines_den", guarded |-> TRUE],
       [name |-> "_remove_lines_adaptive", guarded |-> TRUE],
       [name |-> "createCLAHE", guarded |-> TRUE],
       [name |-> "bilateralFilter", guarded |-> FALSE],
       [name |-> "GaussianBlur", guarded |-> FALSE],
       [name |-> "addWeighted", guarded |-> FALSE],
       [name |-> "morphologyEx_blackhat", guarded |-> FALSE] >>

\* a slip: extract_text_from_image without its outer handler
StepFailureUncaught(s) == IF s.guarded THEN "degrade" ELSE "raise"

\* what a raising step leads to: its own handler substitutes the input, or the
\* outer handler of extract_text_from_image returns ""
StepFailure(s) == IF s.guarded THEN "degrade" ELSE "return_empty"

SupportedImageExts == {".png", ".jpg", ".jpeg", ".tiff", ".bmp"}

(***************************************************************************)
(* Input texts: up to MaxFrags fragments joined by single spaces           *)
(***************************************************************************)
MaxFrags == 2

Fragments ==
    { "  \t\n ", "gpa", "exams", "paid 5", "student id",
      "transcript of grades", "ustp acad 12", "Receipt No: 12345. Amount Paid: $100.00 for tuition fees. Date: 01/15/2025" }

RECURSIVE JoinWords(_)
JoinWords(ws) ==
    IF ws = <<>> THEN ""
    ELSE IF Len(ws) = 1 THEN ws[1]
    ELSE ws[1] \o " " \o JoinWords(Tail(ws))

Texts == {JoinWords(ws) : ws \in UNION {[1..n -> Fragments] : n \in 0..MaxFrags}}

Docs == {NoText} \cup {SomeText(t) : t \in Texts}

\* texts of the form categories: the clearance sample of __main__, clearance
\* keywords next to keywords of other categories, words repeated and stopped
FormFragments ==
    { "cleared", "no pending clearance", "student id", "paid 100 payment",
      "this form with fees", "form fees fees", "with exam2025 cleared",
      "Clearance Certificate: Student has no pending obligations and is cleared for graduation." }

FormTexts == {JoinWords(ws) : ws \in UNION {[1..n -> FormFragments] : n \in 0..MaxFrags}}

FormDocs == {NoText} \cup {SomeText(t) : t \in FormTexts}

\* what a loaded model does on one call
ModelLabels == {"Receipt", "Invoice"}
Probs == {699, 700, 704, 1000}
Preds ==
    {[raises |-> TRUE, label |-> "", prob |-> 0]}
    \cup [raises : {FALSE}, label : ModelLabels, prob : Probs]
NoPred == [raises |-> FALSE, label |-> "", prob |-> 0]
Thresholds == {DefaultThreshold, 1000}

\* direct rule-engine calls per behaviour, and the other texts they are about
MaxRuleCalls == 2
OtherTexts == {"Grade Report for Student ID: 2025-0001. GPA: 3.8."}

NoResult == [document_type |-> "", confidence |-> 0, keywords |-> <<>>, method |-> "none"]
RuleMethods == {"rule_based", "rule_based_fallback", "rule_based_error_fallback"}
Methods == RuleMethods \cup {"insufficient_text", "ml_model"}

\* __init__ / load_model: a model is held iff the file exists and loads
ConstructModel(path_exists, load_ok) == IF path_exists /\ load_ok THEN "loaded" ELSE "none"

NoRuleOut == [text |-> "", document_type |-> "", confidence |-> 0, scores |-> [c \in CategorySet |-> 0]]

ClassifierOn(D) ==
    /\ \E path_exists \in BOOLEAN, load_ok \in BOOLEAN :
           model = ConstructModel(path_exists, load_ok)
    /\ confidence_threshold \in Thresholds
    /\ doc \in D
    /\ pred = NoPred
    /\ result = NoResult
    /\ lastScores = [c \in CategorySet |-> 0]
    /\ ruleOut = NoRuleOut
    /\ ruleLog = <<>>
    /\ calls = 0

InitClassifier == ClassifierOn(Docs)

\* classifier.classify(doc), once per document
Classify ==
    /\ result = NoResult
    /\ calls = 0
    /\ \E p \in (IF model = "none" \/ InsufficientText(doc) THEN {NoPred} ELSE Preds) :
          LET r == classify(doc, model, confidence_threshold, p)
          IN  /\ result' = r
              /\ pred' = p
    /\ UNCHANGED <<model, confidence_threshold, doc, lastScores, ruleOut, ruleLog, calls>>

\* a direct call of rule_based_classification: what it returns, and the log of
\* what the first call on each text returned
RuleCallOn(t) ==
    /\ calls < MaxRuleCalls
    /\ result = NoResult
    /\ \E rb \in {rule_based_classification(t)} :
          /\ ruleOut' = [text |-> t, document_type |-> rb.document_type,
                         confidence |-> rb.confidence, scores |-> rb.scores]
          /\ lastScores' = rb.scores
    /\ calls' = calls + 1
    /\ ruleLog' = IF t \in DOMAIN ruleLog THEN ruleLog ELSE (t :> ruleOut') @@ ruleLog
    /\ UNCHANGED <<model, confidence_threshold, doc, pred, result>>

\* classifier.rule_based_classification(doc)
RuleBasedCall == doc.some /\ RuleCallOn(doc.val)

\* the same classifier is asked about another text in between
RuleBasedOther == \E t \in OtherTexts : RuleCallOn(t)

(***************************************************************************)
(* Texts for the field extractor: the document code written with a leading *)
(* part, and separators of up to MaxSpaces spaces around an optional dash  *)
(***************************************************************************)
MaxSpaces == 1

RECURSIVE Spaces(_)
Spaces(n) == IF n = 0 THEN "" ELSE " " \o Spaces(n - 1)

Seps == {Spaces(a) \o d \o Spaces(b) : a \in 0..MaxSpaces, b \in 0..MaxSpaces, d \in {"", "-"}}

\* the leading letters, and the case the tokens are written in
Leads == {"FM", "fm", "M", "m", "F M", ""}
Cased(lead, tok) == IF lead \in {"fm", "m"} THEN Lower(tok) ELSE tok

CodeTexts ==
    {lead \o s1 \o Cased(lead, "USTP") \o s2 \o Cased(lead, "ACAD") \o s3 \o "12" :
        lead \in Leads, s1 \in Seps, s2 \in Seps, s3 \in Seps}

OtherFieldTexts ==
    {"", "Syllabus Review Form", "Form FM-USTP-ACAD-12 rev. 1", "fm^ustp~acad\t12",
     "Course Code: IT121 Faculty: a. cruz",
     "minutes of the meeting", "Total 2024 items", "Pay in 2024 or 2025", "it121 was reviewed",
     "Reviewed by: Jo", "Date of Review: 1/2/2025", "Date: January 5, 2025",
     "descriptive title: intro to it faculty: x", "Faculty - a. cruz, b; dr. reyes part 2",
     "1st semester AY 2024-2025", "AY2024-2025 2nd  semester",
     "indicators and remarks yes. No! YES no"}

FieldDocs == {NoText} \cup {SomeText(t) : t \in CodeTexts \cup OtherFieldTexts}

NoFields == [raised |-> "<not run>"]

InitFields == ftext = NoText /\ fields = NoFields

\* FieldExtractor.extract_syllabus_review(ftext)
ExtractSyllabusReview ==
    /\ fields = NoFields
    /\ fields' = extract_syllabus_review(ftext)
    /\ UNCHANGED <<ftext, classifierVars>>

(***************************************************************************)
(* Files, backends and settings for the OCR engine                         *)
(***************************************************************************)
MaxPages == 2
MaxRuns == 2

Exts == {".pdf", ".PNG", ".jpeg", ".docx"}
Files == [exists : BOOLEAN, ext : Exts]

\* what the backend answers for the pairs the search is watched on
SearchResponses ==
    { BackendDown,
      PlainOnly(" scan "),
      Data(<<"Receipt", "No">>, <<Conf(-1), Conf(90), Conf(96)>>, ""),
      Data(<<"Invoice", "12">>, <<Conf(93)>>, ""),
      DataOnly(<<"Receipt", " ">>, <<Conf(95), BadConf, Conf(91)>>),
      Data(<<" ">>, <<Conf(-1), Conf(95)>>, "scan 7\n") }
NothingRecognized == Data(<<>>, <<>>, "")
HotPairs == {<<1, 2>>, <<2, 1>>, <<NumVariants, NumConfigs>>}

\* a deterministic backend: one answer per (variant, config), header and body
BackendOf(hot, header, body) ==
    [page |-> [p \in Pairs |-> IF p \in DOMAIN hot THEN hot[p] ELSE NothingRecognized],
     header |-> header, body |-> body]

\* a document: one backend per page image, an image file being page 0
PageIndexes == 0..(MaxPages - 1)
SamePages(b) == [i \in PageIndexes |-> b]

SearchBackends ==
    {SamePages(BackendOf(h, BackendDown, BackendDown)) : h \in [HotPairs -> SearchResponses]}

DeadPage == BackendOf(<<>>, BackendDown, BackendDown)
ReceiptPage ==
    BackendOf((<<2, 1>> :> Data(<<"Receipt", "No:", "12345.", "Amount", "Paid:", "$100.00">>,
                                 <<Conf(96), Conf(91), Conf(88), Conf(-1), Conf(93), Conf(90), Conf(95)>>, "")),
              PlainOnly("RECEIPT\n"),
              Data(<<"for", "tuition", "fees.">>, <<Conf(90), Conf(92), Conf(80)>>, ""))
DeadBackend == SamePages(DeadPage)
ReceiptBackend == SamePages(ReceiptPage)
PipelineBackends == {DeadBackend, ReceiptBackend}

\* documents for the extraction as a whole: a page the backend recognizes
\* nothing on, a backend that is down for every call, a page where a blank
\* candidate is more confident than one with text, a page read in its regions
\* only, and an invoice page to tell the pages of a document apart
BlankPage == BackendOf(<<>>, NothingRecognized, NothingRecognized)
DownPage == [page |-> [p \in Pairs |-> BackendDown], header |-> BackendDown, body |-> BackendDown]
GhostPage ==
    BackendOf((<<1, 2>> :> Data(<<" ">>, <<Conf(95)>>, ""))
              @@ (<<2, 1>> :> Data(<<"Receipt", "No">>, <<Conf(93)>>, "")),
              BackendDown, BackendDown)
RegionsPage ==
    BackendOf(<<>>, PlainOnly("RECEIPT\n"),
              Data(<<"for", "tuition", "fees.">>, <<Conf(90), Conf(92), Conf(80)>>, ""))
InvoicePage ==
    BackendOf((<<1, 1>> :> Data(<<"Invoice", "12">>, <<Conf(93)>>, "")),
              BackendDown, PlainOnly("Total 5"))
Alternating(even, odd) == [i \in PageIndexes |-> IF i % 2 = 0 THEN even ELSE odd]

ExtractBackends ==
    { SamePages(BlankPage), SamePages(DownPage), SamePages(GhostPage),
      Alternating(ReceiptPage, InvoicePage), Alternating(RegionsPage, ReceiptPage) }

\* OCR_MAX_CHARS and OCR_MAX_PAGES together
ExtractSettings ==
    { <<Unset, Unset>>, <<Unset, EnvValue("2")>>, <<Unset, EnvValue("3")>>,
      <<Unset, EnvValue("0")>>, <<Unset, EnvValue("all")>>,
      <<EnvValue("12"), EnvValue("2")>>, <<EnvValue("-1"), EnvValue("2")>>,
      <<EnvValue("0"), Unset>>, <<EnvValue("1e3"), Unset>> }
ExtractFiles == {[exists |-> TRUE, ext |-> e] : e \in {".pdf", ".PNG"}}

MaxCharsEnvs == {Unset, EnvValue("12")}
MaxPagesEnvs == {Unset, EnvValue("2"), EnvValue("all")}

NoError == "none"

searchVars == <<cand, cfg, best_text, best_conf, attempts>>
pageVars == <<step, header_text, body_text>>
pdfVars == <<npages, page_i, extracted_text, temp_files, processed, untruncated>>
envVars == <<file, backend, max_chars_env, max_pages_env>>
appVars == <<jobs, disk, response>>
runVars == <<run, prevBest>>

\* no call has done anything yet
NothingDone ==
    /\ cand = 1 /\ cfg = 1 /\ best_text = "" /\ best_conf = InitialBestConf /\ attempts = <<>>
    /\ header_text = "" /\ body_text = ""
    /\ npages = 0 /\ page_i = 0 /\ extracted_text = <<>> /\ temp_files = {}
    /\ processed = <<>> /\ untruncated = <<>>
    /\ otext = NoText /\ raised = NoError
    /\ degraded = FALSE /\ caught = NoError /\ fault = NoError
    /\ run = 1 /\ prevBest = <<>>

\* nothing runs beside the call, and no file of an earlier call is left
NoFile == [by |-> 0, doc |-> 0, page |-> 0]
UploadNames == {"a.pdf", "b.pdf"}
EmptyDisk == [temp |-> [i \in PageIndexes |-> NoFile], upload |-> [f \in UploadNames |-> 0]]
NoResponse == [status |-> 0]
NoJobs == jobs = <<>> /\ disk = EmptyDisk /\ response = NoResponse

IdleOcr ==
    /\ NoJobs
    /\ pc = "idle"
    /\ file = [exists |-> FALSE, ext |-> ""]
    /\ backend = DeadBackend
    /\ max_chars_env = Unset
    /\ max_pages_env = Unset
    /\ step = 1
    /\ NothingDone

InPdf == Lower(file.ext) = ".pdf"

\* what the backend answers for the page image in progress
PageBackend == backend[page_i]
MaxChars == IntSetting(max_chars_env, DefaultMaxChars)
MaxPagesSetting == IntSetting(max_pages_env, DefaultMaxPages)

\* an exception leaves extract_text
Raise(kind) ==
    /\ raised' = kind
    /\ pc' = "raised"
    /\ UNCHANGED <<otext, degraded, caught, fault, envVars, appVars, searchVars, pageVars, pdfVars, runVars>>

\* extract_text(file_path): the existence check and the routing on the extension
ExtractText ==
    /\ pc = "start"
    /\ IF ~file.exists THEN Raise("FileNotFoundError")
       ELSE IF InPdf
       THEN /\ pc' = "convert_from_path"
            /\ UNCHANGED <<otext, raised, degraded, caught, fault, envVars, appVars, searchVars, pageVars, pdfVars, runVars>>
       ELSE IF Lower(file.ext) \in SupportedImageExts
       THEN /\ pc' = "transforms"
            /\ step' = 1
            /\ UNCHANGED <<otext, raised, degraded, caught, fault, envVars, appVars, searchVars, header_text,
                           body_text, pdfVars, runVars>>
       ELSE Raise("ValueError")
    /\ UNCHANGED <<classifierVars, fieldVars>>

\* the handler of extract_text_from_pdf: whatever op raised, return ""
PdfReturnsEmpty(op) ==
    /\ otext' = SomeText("")
    /\ caught' = "extract_text_from_pdf"
    /\ fault' = op
    /\ pc' = "extracted"
    /\ UNCHANGED <<raised, degraded, envVars, appVars, searchVars, pageVars, pdfVars, runVars>>

\* convert_from_path and the choice of the pages to process
ConvertFromPath ==
    /\ pc = "convert_from_path"
    /\ \/ PdfReturnsEmpty("convert_from_path")
       \/ \E n \in 0..MaxPages :
             /\ npages' = n
             /\ page_i' = 0
             /\ extracted_text' = <<>>
             /\ pc' = IF PagesToProcess(n, MaxPagesSetting) > 0 THEN "page_write" ELSE "join_pages"
             /\ UNCHANGED <<temp_files, processed, untruncated, otext, raised, degraded, caught,
                            fault, envVars, appVars, searchVars, pageVars, runVars>>
    /\ UNCHANGED <<classifierVars, fieldVars>>

\* one page: np.array, cvtColor and imwrite of temp_page_<i>.png, then the
\* call of extract_text_from_image on it
PageWrite ==
    /\ pc = "page_write"
    /\ \/ PdfReturnsEmpty("imwrite")
       \/ \E written \in BOOLEAN :
             /\ temp_files' = IF written THEN temp_files \cup {page_i} ELSE temp_files
             /\ processed' = Append(processed, page_i)
             /\ pc' = "transforms"
             /\ step' = 1
             /\ UNCHANGED <<npages, page_i, extracted_text, untruncated, header_text, body_text,
                            otext, raised, degraded, caught, fault, envVars, appVars, searchVars, runVars>>
    /\ UNCHANGED <<classifierVars, fieldVars>>

\* extract_text_from_image hands text to its caller; whole is the text before
\* the length cap, handler the handler that ran, op the call that failed
ImageReturns(text, whole, handler, op) ==
    /\ caught' = handler
    /\ fault' = op
    /\ untruncated' = Append(untruncated, whole)
    /\ IF InPdf
       THEN /\ extracted_text' = Append(extracted_text, text)
            /\ pc' = "page_remove"
            /\ UNCHANGED otext
       ELSE /\ otext' = SomeText(text)
            /\ pc' = "extracted"
            /\ UNCHANGED extracted_text
    /\ UNCHANGED <<raised, degraded, npages, page_i, temp_files, processed, envVars, appVars, searchVars,
                   pageVars, runVars>>

\* the step is over, its handler having run or not: the next step, or lines
\* 206-216 when it was the last
Proceed(failed) ==
    /\ degraded' = (degraded \/ failed)
    /\ IF step < Len(ImageSteps)
       THEN /\ step' = step + 1
            /\ UNCHANGED <<pc, searchVars>>
       ELSE /\ pc' = "search"
            /\ cand' = 1
            /\ cfg' = 1
            /\ best_text' = ""
            /\ best_conf' = InitialBestConf
            /\ attempts' = <<>>
            /\ UNCHANGED step
    /\ UNCHANGED <<header_text, body_text, otext, raised, caught, fault, envVars, appVars, pdfVars, runVars>>

\* the failing call as fault records it: the read of the image, or a transform
FaultOf(s) == IF s.name = "imread" THEN "imread" ELSE "transform"

\* the image the page is read from is there
ImageReadable == ~InPdf \/ page_i \in temp_files

\* one step of extract_text_from_image up to the candidates
ImageStep ==
    /\ pc = "transforms"
    /\ \E s \in {ImageSteps[step]} :
          \/ s.name = "imread" /\ ImageReturns("", "", caught, "imread")
          \/ (s.name = "imread" => ImageReadable) /\ Proceed(FALSE)
          \/ /\ s.name = "imread" => ImageReadable
             /\ \E todo \in {StepFailure(s)} :
                   IF todo = "degrade" THEN Proceed(TRUE)
                   ELSE IF todo = "return_empty"
                   THEN ImageReturns("", "", "extract_text_from_image", FaultOf(s))
                   ELSE IF InPdf THEN PdfReturnsEmpty(FaultOf(s))
                   ELSE Raise("Exception")
    /\ UNCHANGED <<classifierVars, fieldVars>>

\* one iteration of the search loop
OcrAttempt ==
    /\ pc = "search"
    /\ attempts' = Append(attempts, <<cand, cfg>>)
    /\ \E r \in {OcrTextAndConf(PageBackend.page[<<cand, cfg>>])} :
          IF Better(r.conf, r.text, best_conf, best_text)
          THEN best_text' = r.text /\ best_conf' = r.conf
          ELSE UNCHANGED <<best_text, best_conf>>
    /\ IF cfg < NumConfigs THEN cfg' = cfg + 1 /\ UNCHANGED <<cand, pc>>
       ELSE IF cand < NumVariants THEN cand' = cand + 1 /\ cfg' = 1 /\ UNCHANGED pc
       ELSE pc' = "searched" /\ UNCHANGED <<cand, cfg>>
    /\ UNCHANGED <<otext, raised, degraded, caught, fault, envVars, appVars, pageVars, pdfVars, runVars>>
    /\ UNCHANGED <<classifierVars, fieldVars>>

\* the header region: its extraction may raise, its OCR does not
HeaderOcr ==
    /\ pc = "searched"
    /\ \E fails \in BOOLEAN :
          /\ header_text' = IF fails THEN "" ELSE Strip(OcrTextAndConf(PageBackend.header).text)
          /\ degraded' = (degraded \/ fails)
    /\ pc' = "body"
    /\ UNCHANGED <<step, body_text, otext, raised, caught, fault, envVars, appVars, searchVars, pdfVars, runVars>>
    /\ UNCHANGED <<classifierVars, fieldVars>>

\* the body region
BodyOcr ==
    /\ pc = "body"
    /\ \E fails \in BOOLEAN :
          /\ body_text' = IF fails THEN "" ELSE Strip(OcrTextAndConf(PageBackend.body).text)
          /\ degraded' = (degraded \/ fails)
    /\ pc' = "merge"
    /\ UNCHANGED <<step, header_text, otext, raised, caught, fault, envVars, appVars, searchVars, pdfVars, runVars>>
    /\ UNCHANGED <<classifierVars, fieldVars>>

\* the pieces are joined, truncated and returned
MergeAndReturn ==
    /\ pc = "merge"
    /\ ImageReturns(MergePieces(header_text, best_text, body_text, MaxChars),
                    JoinPieces(header_text, best_text, body_text), caught, fault)
    /\ UNCHANGED <<classifierVars, fieldVars>>

\* os.remove(temp_path) and the next page
PageRemove ==
    /\ pc = "page_remove"
    /\ \/ PdfReturnsEmpty("os.remove")
       \/ /\ page_i \in temp_files
          /\ temp_files' = temp_files \ {page_i}
          /\ page_i' = page_i + 1
          /\ pc' = IF page_i + 1 < PagesToProcess(npages, MaxPagesSetting)
                   THEN "page_write" ELSE "join_pages"
          /\ UNCHANGED <<npages, extracted_text, processed, untruncated, otext, raised,
                         degraded, caught, fault, envVars, appVars, searchVars, pageVars, runVars>>
    /\ UNCHANGED <<classifierVars, fieldVars>>

\* the page texts are joined, truncated and returned
PdfJoin ==
    /\ pc = "join_pages"
    /\ otext' = SomeText(Truncate(Strip(Join("\n\n", extracted_text)), MaxChars))
    /\ pc' = "extracted"
    /\ UNCHANGED <<raised, degraded, caught, fault, envVars, appVars, searchVars, pageVars, pdfVars, runVars>>
    /\ UNCHANGED <<classifierVars, fieldVars>>

\* classifier.classify(extracted_text)
ClassifyExtracted ==
    /\ pc = "extracted"
    /\ \E p \in (IF model = "none" \/ InsufficientText(otext) THEN {NoPred} ELSE Preds) :
          /\ result' = classify(otext, model, confidence_threshold, p)
          /\ pred' = p
    /\ doc' = otext
    /\ pc' = "classified"
    /\ UNCHANGED <<model, confidence_threshold, lastScores, ruleOut, ruleLog, calls>>
    /\ UNCHANGED <<otext, raised, degraded, caught, fault, envVars, appVars, searchVars, pageVars, pdfVars, runVars>>
    /\ UNCHANGED fieldVars

\* the same image is searched once more
RunAgain ==
    /\ pc = "searched"
    /\ run < MaxRuns
    /\ run' = run + 1
    /\ prevBest' = Append(prevBest, [text |-> best_text, conf |-> best_conf])
    /\ pc' = "search"
    /\ cand' = 1
    /\ cfg' = 1
    /\ best_text' = ""
    /\ best_conf' = InitialBestConf
    /\ attempts' = <<>>
    /\ UNCHANGED <<otext, raised, degraded, caught, fault, envVars, appVars, pageVars, pdfVars>>
    /\ UNCHANGED <<classifierVars, fieldVars>>

IdleClassifier ==
    /\ model = "none"
    /\ confidence_threshold = DefaultThreshold
    /\ doc = NoText
    /\ pred = NoPred
    /\ result = NoResult
    /\ lastScores = [c \in CategorySet |-> 0]
    /\ ruleOut = NoRuleOut
    /\ ruleLog = <<>>
    /\ calls = 0

Init == InitClassifier /\ InitFields /\ IdleOcr
Next == Classify /\ UNCHANGED <<fieldVars, ocrVars>>

\* one classify call per document
Spec == Init /\ [][Next]_vars

InitRule == InitClassifier /\ confidence_threshold = DefaultThreshold /\ InitFields /\ IdleOcr
NextRule == (RuleBasedCall \/ RuleBasedOther) /\ UNCHANGED <<fieldVars, ocrVars>>

InitForms == ClassifierOn(FormDocs) /\ InitFields /\ IdleOcr
NextForms == Classify /\ UNCHANGED <<fieldVars, ocrVars>>

\* one classify call per form text
SpecForms == InitForms /\ [][NextForms]_vars

\* direct calls of the rule engine on one classifier
SpecRule == InitRule /\ [][NextRule]_vars

\* texts for the scores of the rule engine: categories that tie, a Grade Sheet
\* score next to the syllabus composite, and a composite above 10
ScoreFragments ==
    {"gpa", "official receipt", "transcript of grades", "ustp acad 12", "Syllabus Review Form"}
ScoreTexts == {JoinWords(ws) : ws \in UNION {[1..n -> ScoreFragments] : n \in 1..MaxFrags}}
ScoreDocs == {SomeText(t) : t \in ScoreTexts}
CappedTexts == {"Syllabus Review Form FM-USTP-ACAD-12 grade"}

\* the same classifier is asked about a form that carries every syllabus title
RuleBasedCapped == \E t \in CappedTexts : RuleCallOn(t)

InitScores ==
    ClassifierOn(ScoreDocs) /\ confidence_threshold = DefaultThreshold /\ InitFields /\ IdleOcr
NextScores == (RuleBasedCall \/ RuleBasedCapped) /\ UNCHANGED <<fieldVars, ocrVars>>

\* direct calls of the rule engine on texts that score in several categories
SpecScores == InitScores /\ [][NextScores]_vars

InitFieldsRun == IdleClassifier /\ ftext \in FieldDocs /\ fields = NoFields /\ IdleOcr
NextFields == ExtractSyllabusReview /\ UNCHANGED ocrVars

\* one extract_syllabus_review call per text
SpecFields == InitFieldsRun /\ [][NextFields]_vars

\* the state after line 216 of extract_text_from_image, for an image and a backend
InitSearch ==
    /\ IdleClassifier
    /\ InitFields
    /\ NoJobs
    /\ pc = "search"
    /\ file = [exists |-> TRUE, ext |-> ".PNG"]
    /\ backend \in SearchBackends
    /\ max_chars_env = Unset
    /\ max_pages_env = Unset
    /\ step = Len(ImageSteps)
    /\ NothingDone
NextSearch == OcrAttempt \/ RunAgain

\* the full-page candidate search, run MaxRuns times on the same image
SpecSearch == InitSearch /\ [][NextSearch]_vars

InitPipeline ==
    /\ \E path_exists \in BOOLEAN, load_ok \in BOOLEAN :
           model = ConstructModel(path_exists, load_ok)
    /\ confidence_threshold = DefaultThreshold
    /\ doc = NoText
    /\ pred = NoPred
    /\ result = NoResult
    /\ lastScores = [c \in CategorySet |-> 0]
    /\ ruleOut = NoRuleOut
    /\ ruleLog = <<>>
    /\ calls = 0
    /\ InitFields
    /\ NoJobs
    /\ pc = "start"
    /\ file \in Files
    /\ backend \in PipelineBackends
    /\ max_chars_env \in MaxCharsEnvs
    /\ max_pages_env \in MaxPagesEnvs
    /\ step = 1
    /\ NothingDone

InitExtract ==
    /\ IdleClassifier
    /\ InitFields
    /\ NoJobs
    /\ pc = "start"
    /\ file \in ExtractFiles
    /\ backend \in ExtractBackends
    /\ \E st \in ExtractSettings :
          /\ max_chars_env = st[1]
          /\ max_pages_env = IF InPdf THEN st[2] ELSE Unset
    /\ step = 1
    /\ NothingDone
NextExtract ==
    \/ ExtractText \/ ConvertFromPath \/ PageWrite \/ ImageStep \/ OcrAttempt \/ HeaderOcr
    \/ BodyOcr \/ MergeAndReturn \/ PageRemove \/ PdfJoin

\* extract_text on an image or a PDF that exists
SpecExtract == InitExtract /\ [][NextExtract]_vars

\* the steps that move control or handle files, and the steps that compute a text
ControlStep == ExtractText \/ ConvertFromPath \/ PageWrite \/ ImageStep \/ PageRemove
ComputeStep == OcrAttempt \/ HeaderOcr \/ BodyOcr \/ MergeAndReturn \/ PdfJoin \/ ClassifyExtracted
NextPipeline == ControlStep \/ ComputeStep

\* a computing step is enabled exactly at these positions
Computing == pc \in {"search", "searched", "body", "merge", "join_pages", "extracted"}

\* the calls are sequential code: a call in progress takes its next step. Weak
\* fairness of both kinds of step, the enabling condition of the computing
\* steps written out
PipelineFairness ==
    /\ WF_vars(ControlStep)
    /\ ([]<>(~Computing) \/ []<><<ComputeStep>>_vars)

\* extract_text on a file, then classify on its output
SpecPipeline == InitPipeline /\ [][NextPipeline]_vars /\ PipelineFairness

(***************************************************************************)
(* Two invocations side by side in one process and one working directory:  *)
(* direct calls of extract_text on two PDF files, or two requests to       *)
(* classify_document.  Page images are told apart by the invocation that   *)
(* wrote them and the document and page they show; a page text is the      *)
(* image it was read from.  The environment itself never fails here.       *)
(***************************************************************************)
Workers == {1, 2}

\* the single call's variables, which the invocations here leave alone
callVars ==
    <<file, backend, max_chars_env, max_pages_env, pc, step, searchVars, header_text, body_text,
      pdfVars, otext, raised, degraded, caught, fault, runVars>>

NoOut == [status |-> "running", text |-> <<>>]
NewJob(kind, name, pages) ==
    [kind |-> kind, name |-> name, pages |-> pages, pc |-> IF kind = "upload" THEN "save" ELSE "exists",
     src |-> 0, n |-> 0, i |-> 0, texts |-> <<>>, foreign |-> FALSE, out |-> NoOut]

\* two direct extractions of two files, or two uploads under the same or
\* under different names
JobPairs ==
    { [w \in Workers |-> NewJob(kind, IF kind = "upload" /\ same THEN "a.pdf" ELSE <<"a.pdf", "b.pdf">>[w],
                              pages[w])] :
        kind \in {"extract", "upload"}, same \in BOOLEAN, pages \in [Workers -> 1..MaxPages] }

Job(w) == jobs[w]
SetJob(w, j) == jobs' = [jobs EXCEPT ![w] = j]
Uploaded(w) == disk.upload[Job(w).name]

\* the invocation is over: extract_text returned text, or the request was
\* answered with status
Finish(w, status, text, foreign) ==
    SetJob(w, [Job(w) EXCEPT !.pc = "done", !.out = [status |-> status, text |-> text],
                             !.foreign = foreign])

\* extract_text_from_pdf returned text to its caller
PdfReturned(w, text) ==
    IF Job(w).kind = "upload"
    THEN SetJob(w, [Job(w) EXCEPT !.pc = "cleanup", !.texts = text])
    ELSE Finish(w, "returned", text, Job(w).foreign)

\* file.save(temp_path)
SaveUpload(w) ==
    /\ Job(w).pc = "save"
    /\ disk' = [disk EXCEPT !.upload[Job(w).name] = w]
    /\ SetJob(w, [Job(w) EXCEPT !.pc = "exists"])
    /\ UNCHANGED <<classifierVars, fieldVars, callVars, response>>

\* extract_text: os.path.exists(file_path); a missing file raises, and
\* classify_document answers 500
PathExists(w) ==
    /\ Job(w).pc = "exists"
    /\ IF Job(w).kind = "upload" /\ Uploaded(w) = 0
       THEN Finish(w, "500", <<>>, Job(w).foreign)
       ELSE SetJob(w, [Job(w) EXCEPT !.pc = "convert"])
    /\ UNCHANGED disk
    /\ UNCHANGED <<classifierVars, fieldVars, callVars, response>>

\* convert_from_path(pdf_path) and pages[: max(1, max_pages)]; the file read
\* is the caller's own, or whatever lies under the upload's name
Rasterize(w, d) ==
    IF d = 0 THEN PdfReturned(w, <<>>)
    ELSE SetJob(w, [Job(w) EXCEPT !.pc = "write", !.src = d, !.i = 0,
                                  !.n = PagesToProcess(Job(d).pages, MaxPagesSetting),
                                  !.foreign = (Job(w).foreign \/ d # w)])
ConvertPdf(w) ==
    /\ Job(w).pc = "convert"
    /\ Rasterize(w, IF Job(w).kind = "upload" THEN Uploaded(w) ELSE w)
    /\ UNCHANGED disk
    /\ UNCHANGED <<classifierVars, fieldVars, callVars, response>>

\* cv2.imwrite(f"temp_page_{i}.png", img_bgr)
WriteTempPage(w) ==
    /\ Job(w).pc = "write"
    /\ disk' = [disk EXCEPT !.temp[Job(w).i] = [by |-> w, doc |-> Job(w).src, page |-> Job(w).i]]
    /\ SetJob(w, [Job(w) EXCEPT !.pc = "read"])
    /\ UNCHANGED <<classifierVars, fieldVars, callVars, response>>

\* extract_text_from_image(temp_path): cv2.imread of whatever the file holds,
\* "" when there is no file
ReadTempPage(w) ==
    /\ Job(w).pc = "read"
    /\ SetJob(w, [Job(w) EXCEPT !.pc = "remove",
                                !.texts = Append(Job(w).texts, disk.temp[Job(w).i]),
                                !.foreign = (Job(w).foreign \/ disk.temp[Job(w).i].by \notin {0, w})])
    /\ UNCHANGED disk
    /\ UNCHANGED <<classifierVars, fieldVars, callVars, response>>

\* os.remove(temp_path), which raises when the file is gone: the handler of
\* extract_text_from_pdf returns ""; otherwise the next page or the joined text
RemoveTempPage(w) ==
    /\ Job(w).pc = "remove"
    /\ IF disk.temp[Job(w).i] = NoFile
       THEN PdfReturned(w, <<>>) /\ UNCHANGED disk
       ELSE /\ disk' = [disk EXCEPT !.temp[Job(w).i] = NoFile]
            /\ IF Job(w).i + 1 < Job(w).n
               THEN SetJob(w, [Job(w) EXCEPT !.pc = "write", !.i = Job(w).i + 1])
               ELSE PdfReturned(w, Job(w).texts)
    /\ UNCHANGED <<classifierVars, fieldVars, callVars, response>>

\* classify_document after the OCR: os.remove(temp_path), which raises when
\* the file is gone, and the answer
RemoveUpload(w) ==
    /\ Job(w).pc = "cleanup"
    /\ IF Uploaded(w) = 0
       THEN Finish(w, "500", <<>>, Job(w).foreign) /\ UNCHANGED disk
       ELSE /\ disk' = [disk EXCEPT !.upload[Job(w).name] = 0]
            /\ Finish(w, "200", Job(w).texts, Job(w).foreign)
    /\ UNCHANGED <<classifierVars, fieldVars, callVars, response>>

InitConcurrent ==
    /\ IdleClassifier
    /\ InitFields
    /\ pc = "idle"
    /\ file = [exists |-> FALSE, ext |-> ""]
    /\ backend = DeadBackend
    /\ max_chars_env = Unset
    /\ max_pages_env \in {Unset, EnvValue("2")}
    /\ step = 1
    /\ NothingDone
    /\ jobs \in JobPairs
    /\ disk = EmptyDisk
    /\ response = NoResponse

JobStep(w) ==
    \/ SaveUpload(w) \/ PathExists(w) \/ ConvertPdf(w) \/ WriteTempPage(w) \/ ReadTempPage(w)
    \/ RemoveTempPage(w) \/ RemoveUpload(w)
NextConcurrent == \E w \in Workers : JobStep(w)

\* two invocations, their steps interleaved in every order
SpecConcurrent == InitConcurrent /\ [][NextConcurrent]_vars

(***************************************************************************)
(* app.py: classify_document from the OCR text on                          *)
(***************************************************************************)
\* texts the OCR hands over: a syllabus review form, a form the rule engine
\* takes for a grade sheet, a receipt, and a text too short to classify
UploadTexts ==
    { "Syllabus Review Form Course Code: IT121", "syllabus review: grades of faculty: ab",
      "transcript of grades 2nd semester", "Receipt No: 12345. Amount Paid: $100.00", "IT121" }

\* a slip: the extractor is run whatever the document type
RunsExtractorAlways(document_type) == TRUE

\* classification_result.get('document_type') == 'Syllabus Review Form'
RunsExtractor(document_type) == document_type = "Syllabus Review Form"

\* FieldExtractor.extract_syllabus_review(extracted_text) returns, or raises and
\* the handler of step 2.1 takes over
ExtractorRaised == [raised |-> "Exception"]
FieldsOutcome(raises, text) == IF raises THEN ExtractorRaised ELSE extract_syllabus_review(text)

\* extracted_fields = {}: the dict without an entry
EmptyDict == [raised |-> "none"]
ExtractedFields == IF fields.raised = "none" THEN fields ELSE EmptyDict

\* step 2.1 of classify_document
ExtractFields ==
    /\ pc = "classified"
    /\ IF RunsExtractor(result.document_type)
       THEN \E raises \in BOOLEAN :
               /\ ftext' = otext
               /\ fields' = FieldsOutcome(raises, otext)
       ELSE UNCHANGED fieldVars
    /\ pc' = "fields_done"
    /\ UNCHANGED <<otext, raised, degraded, caught, fault, envVars, appVars, searchVars, pageVars,
                   pdfVars, runVars>>
    /\ UNCHANGED classifierVars

\* steps 3 and 4 and the answer: 200 with the classification and the fields,
\* or 500 when the storage raised
Answer(stored) ==
    IF stored
    THEN [status |-> 200, document_type |-> result.document_type, confidence |-> result.confidence,
          keywords |-> result.keywords, fields |-> ExtractedFields]
    ELSE [status |-> 500]
Respond ==
    /\ pc = "fields_done"
    /\ \E stored \in BOOLEAN : response' = Answer(stored)
    /\ pc' = "answered"
    /\ UNCHANGED <<otext, raised, degraded, caught, fault, envVars, jobs, disk, searchVars, pageVars,
                   pdfVars, runVars>>
    /\ UNCHANGED <<classifierVars, fieldVars>>

\* the state after line 147 of classify_document
InitUpload ==
    /\ \E path_exists \in BOOLEAN, load_ok \in BOOLEAN :
           model = ConstructModel(path_exists, load_ok)
    /\ confidence_threshold = DefaultThreshold
    /\ doc = NoText
    /\ pred = NoPred
    /\ result = NoResult
    /\ lastScores = [c \in CategorySet |-> 0]
    /\ ruleOut = NoRuleOut
    /\ ruleLog = <<>>
    /\ calls = 0
    /\ InitFields
    /\ NoJobs
    /\ pc = "extracted"
    /\ file = [exists |-> TRUE, ext |-> ".pdf"]
    /\ backend = DeadBackend
    /\ max_chars_env = Unset
    /\ max_pages_env = Unset
    /\ step = 1
    /\ cand = 1 /\ cfg = 1 /\ best_text = "" /\ best_conf = InitialBestConf /\ attempts = <<>>
    /\ header_text = "" /\ body_text = ""
    /\ npages = 0 /\ page_i = 0 /\ extracted_text = <<>> /\ temp_files = {}
    /\ processed = <<>> /\ untruncated = <<>>
    /\ otext \in {SomeText(t) : t \in UploadTexts}
    /\ raised = NoError
    /\ degraded = FALSE /\ caught = NoError /\ fault = NoError
    /\ run = 1 /\ prevBest = <<>>
NextUpload == ClassifyExtracted \/ ExtractFields \/ Respond

\* one request from the OCR text to the answer
SpecUpload == InitUpload /\ [][NextUpload]_vars

(***************************************************************************)
(* Claims about classify and the rule engine                               *)
(***************************************************************************)
Classified == result # NoResult

\* the text is absent, empty, or shorter than 10 characters once trimmed
ShortDoc == ~doc.some \/ Len(Strip(doc.val)) < 10

InsufficientResult ==
    [document_type |-> "Other", confidence |-> 0, keywords |-> <<>>,
     method |-> "insufficient_text"]

\* C1: for an absent or empty text, or one whose trimmed length is below 10,
\* classify returns exactly {Other, 0.0, [], insufficient_text}, with or without a
\* model, and the model is not asked for a prediction; for a text of trimmed
\* length 10 or more the method is never insufficient_text.
C1_InsufficientTextFloor ==
    Classified =>
        /\ ShortDoc => result = InsufficientResult /\ pred = NoPred
        /\ ~ShortDoc => result.method # "insufficient_text"

\* a text padded with whitespace to 10 characters or more, but short once
\* trimmed, was given to a classifier that holds a model
C1_Witness ==
    /\ Classified /\ model = "loaded" /\ doc.some /\ Len(doc.val) >= 10
    /\ Len(Strip(doc.val)) \in 1..9
    /\ result = InsufficientResult

\* C2: whatever the text and whatever the model does, the confidence of the
\* result is in [0,1] and its document_type is one of the 11 CATEGORIES.
C2_TypeAndConfidenceInRange ==
    Classified =>
        /\ result.confidence \in 0..100
        /\ result.document_type \in CategorySet

ModelAnswered == model = "loaded" /\ ~pred.raises

\* the method tag as a function of the model state
C3_MethodDetermined ==
    /\ result.method \in {"rule_based", "ml_model", "rule_based_fallback",
                          "rule_based_error_fallback"}
    /\ result.method = "rule_based" <=> model = "none"
    /\ result.method = "ml_model" <=> ModelAnswered /\ pred.prob >= confidence_threshold
    /\ result.method = "rule_based_fallback" <=>
           ModelAnswered /\ pred.prob < confidence_threshold
    /\ result.method = "rule_based_error_fallback" <=> model = "loaded" /\ pred.raises

\* C3 (as amended): for a text of trimmed length 10 or more the method tag is
\* determined by the model state: rule_based iff no model; ml_model iff the
\* model answers with a top probability >= the threshold (equality included),
\* and then the type is the model's label and the confidence is the model's
\* probability rounded to 2 decimals; rule_based_fallback iff the probability
\* is below the threshold; rule_based_error_fallback iff prediction raises.
C3_MethodTag ==
    Classified /\ ~ShortDoc =>
        /\ C3_MethodDetermined
        /\ result.method = "ml_model" =>
               /\ result.document_type = pred.label
               /\ result.confidence * 10 \in (pred.prob - 5)..(pred.prob + 5)
               /\ result.confidence = Round2(pred.prob)

\* the model answered with a probability equal to the threshold
C3_Witness ==
    /\ Classified /\ ~ShortDoc /\ result.method = "ml_model"
    /\ pred.prob = confidence_threshold /\ confidence_threshold = DefaultThreshold

\* C3 as stated: under ml_model the returned confidence is the model's own
\* probability.
C3_Original ==
    Classified /\ ~ShortDoc =>
        /\ C3_MethodDetermined
        /\ result.method = "ml_model" =>
               /\ result.document_type = pred.label
               /\ result.confidence * 10 = pred.prob

\* C4: when classify falls back to the rule engine, the type and the confidence
\* are those of rule_based_classification on the same text (confidence rounded
\* to 2 decimals) and the model's prediction has no influence: but for the
\* method tag the result is that of a classifier without a model.
C4_FallbackIsRuleEngine ==
    Classified /\ result.method \in RuleMethods =>
        /\ [result EXCEPT !.method = "rule_based"]
              = classify(doc, "none", confidence_threshold, NoPred)
        /\ \E rb \in {rule_based_classification(doc.val)} :
              /\ result.document_type = rb.document_type
              /\ result.confidence * 10 = rb.confidence

\* an under-confident model named another type than the rule engine's
C4_Witness ==
    /\ Classified /\ result.method = "rule_based_fallback"
    /\ pred.label = "Invoice" /\ result.document_type = "Receipt"

\* the rule engine's keyword points of a text, for one category
PointsFor(text, c) == KeywordPoints(extract_features(text), Lower(text))[c]

\* the document-code skeleton with a Grade Sheet signal and no keyword of the
\* other specific categories
C9_Premise ==
    /\ doc.some
    /\ Search(UstpAcad12Pattern, Lower(doc.val))
    /\ ContainsAny(Lower(doc.val), {"grade", "marks", "score", "gpa", "transcript", "report card"})
    /\ \A c \in CategorySet \ {"Grade Sheet", "Syllabus Review Form"} : PointsFor(doc.val, c) = 0

\* C9: with no model, a text with the document-code pattern and a Grade Sheet
\* signal, and no keyword of the other categories, is classified Syllabus
\* Review Form: after the down-weight Grade Sheet scores strictly less.
C9_SyllabusBeatsGradeSheet ==
    Classified /\ model = "none" /\ C9_Premise =>
        /\ result.document_type = "Syllabus Review Form"
        /\ \E sc \in {RuleScores(doc.val)} : sc["Grade Sheet"] < sc["Syllabus Review Form"]

\* the closest case: Grade Sheet had both its rules (5), the syllabus composite
\* only the skeleton (3)
C9_Witness ==
    /\ Classified /\ model = "none" /\ C9_Premise
    /\ PointsFor(doc.val, "Grade Sheet") = 5
    /\ RuleScores(doc.val)["Syllabus Review Form"] = 3
    /\ result.document_type = "Syllabus Review Form"

HasDigit(s) == \E i \in 1..Len(s) : IsDigit(CharAt(s, i))

\* a receipt keyword, a numeric amount with 'paid' or 'payment', no clearance
\* signal and no syllabus-review signal
C10_Premise ==
    /\ doc.some
    /\ ContainsAny(Lower(doc.val), {"receipt", "payment", "amount", "paid"})
    /\ HasDigit(doc.val)
    /\ ContainsAny(Lower(doc.val), {"paid", "payment"})
    /\ ~ContainsAny(Lower(doc.val), {"clearance", "cleared", "no obligations", "no pending"})
    /\ SyllabusSignals(extract_features(doc.val)) = 0

C10_IsReceipt ==
    /\ result.document_type = "Receipt"
    /\ result.method = "rule_based"
    /\ result.confidence > 0

\* C10 (as amended): with no model, a text of trimmed length 10 or more with a
\* receipt keyword, a numeric amount and 'paid' or 'payment', and no clearance
\* or syllabus-review signal, is classified Receipt, rule_based, confidence > 0.
C10_ReceiptScenario ==
    Classified /\ model = "none" /\ ~ShortDoc /\ C10_Premise => C10_IsReceipt

\* the scenario text of the spec, and a text where ID Application ties Receipt
C10_Witness ==
    /\ Classified /\ model = "none" /\ C10_Premise /\ C10_IsReceipt
    /\ \/ doc.val = "Receipt No: 12345. Amount Paid: $100.00 for tuition fees. Date: 01/15/2025"
       \/ RuleScores(doc.val)["ID Application"] = RuleScores(doc.val)["Receipt"]

\* C10 as stated, for texts of any length
C10_Original ==
    Classified /\ model = "none" /\ C10_Premise => C10_IsReceipt

FieldsExtracted == fields # NoFields

\* the text holds the document code in the tolerant form the extractor looks for
MatchesCodePattern ==
    ftext.some /\ Search(DocCodePattern, Lower(Norm(ftext.val)))

\* C8: every text matching the tolerant code pattern, whatever its case, its
\* leading letters and the spaces and dashes between its tokens, yields the
\* document_code "FM-USTP-ACAD-12"; so does the canonical form itself.
C8_CodeIsCanonical ==
    FieldsExtracted /\ MatchesCodePattern => fields.document_code = "FM-USTP-ACAD-12"

(***************************************************************************)
(* Claims about the OCR engine                                             *)
(***************************************************************************)
FileSupported == file.exists /\ Lower(file.ext) \in SupportedImageExts \cup {".pdf"}

Delivered == pc = "classified" /\ Classified /\ result.method \in Methods

\* C5: for every file that exists and has a supported extension, extract_text
\* followed by classify never raises and ends with a classification result,
\* whatever the transforms, the OCR calls, the region extractions and the model
\* do (this holds in the two cases the statement exempts as well).
C5_AlwaysClassified ==
    /\ [](FileSupported => raised = NoError)
    /\ [](FileSupported /\ pc = "classified" => Delivered)
    /\ ((FileSupported /\ pc = "start") ~> Delivered)

\* an exception was swallowed by the outer handler of extract_text_from_image
\* and the caller still got a classification
C5_Witness ==
    /\ FileSupported
    /\ Delivered
    /\ caught = "extract_text_from_image"
    /\ result.document_type = "Other"

\* the pairs in variant-major order
PairOrder ==
    [k \in 1..(NumVariants * NumConfigs) |->
        <<((k - 1) \div NumConfigs) + 1, ((k - 1) % NumConfigs) + 1>>]

\* what each pair yields, in that order
CandidatesInOrder == [k \in DOMAIN PairOrder |-> OcrTextAndConf(PageBackend.page[PairOrder[k]])]

TopConf(cands) == SetMax({cands[k].conf : k \in DOMAIN cands})
TopLen(cands, top) == SetMax({Len(cands[k].text) : k \in {j \in DOMAIN cands : cands[j].conf = top}})
FirstTop(cands, top, len) ==
    SetMin({k \in DOMAIN cands : cands[k].conf = top /\ Len(cands[k].text) = len})
Expected(cands, top) == cands[FirstTop(cands, top, TopLen(cands, top))]
ExpectedBest(cands) == Expected(cands, TopConf(cands))

SearchDone == pc = "searched"

\* C6: the search tries every (variant, config) pair once, in variant-major
\* order and without stopping early; it selects the candidate of highest
\* confidence, among those the longest text, among those the first in that
\* order; and every run on the same image and backend selects the same.
C6_ExhaustiveSearch ==
    /\ pc = "search" =>
          attempts = SubSeq(PairOrder, 1, (cand - 1) * NumConfigs + (cfg - 1))
    /\ SearchDone =>
          /\ attempts = PairOrder
          /\ [text |-> best_text, conf |-> best_conf] = ExpectedBest(CandidatesInOrder)
          /\ \A i \in DOMAIN prevBest : prevBest[i] = [text |-> best_text, conf |-> best_conf]

TiedAtTop(cands) ==
    \E j, k \in DOMAIN cands :
        /\ j < k
        /\ cands[j] = ExpectedBest(cands)
        /\ cands[k].conf = cands[j].conf
        /\ Len(cands[k].text) = Len(cands[j].text)
        /\ cands[k].text # cands[j].text

\* a second run is over, and two different texts tied for the best
C6_Witness ==
    /\ SearchDone
    /\ prevBest # <<>>
    /\ best_text # ""
    /\ TiedAtTop(CandidatesInOrder)

\* a clearance keyword, 'cleared' or 'no pending', and no syllabus-review signal
C11_Premise ==
    /\ doc.some
    /\ ContainsAny(Lower(doc.val), {"clearance", "cleared", "no obligations"})
    /\ ContainsAny(Lower(doc.val), {"cleared", "no pending"})
    /\ SyllabusSignals(extract_features(doc.val)) = 0

\* C11 (as amended): with no model, a text of trimmed length 10 or more with a
\* clearance keyword and 'cleared' or 'no pending', and no syllabus-review
\* signal, is classified Clearance, also when it holds keywords of competing
\* categories such as 'certificate'.
C11_ClearanceScenario ==
    Classified /\ model = "none" /\ ~ShortDoc /\ C11_Premise =>
        result.document_type = "Clearance"

\* the sample text of the spec, where Certificate Request scores too, and a
\* text where a later category ties Clearance at 6 points
C11_Witness ==
    /\ Classified /\ model = "none" /\ C11_Premise /\ result.document_type = "Clearance"
    /\ \E sc \in {RuleScores(doc.val)} :
          \/ /\ Contains(doc.val, "Clearance Certificate: Student has no pending obligations")
             /\ sc["Certificate Request"] > 0
          \/ \E c \in {"Receipt", "ID Application"} : sc[c] = sc["Clearance"]

\* C11 as stated, for texts of any length
C11_Original ==
    Classified /\ model = "none" /\ C11_Premise => result.document_type = "Clearance"

\* the ten categories that have rules
SpecificCategories == CategorySet \ {"Other"}

\* C12: the rule engine returns (Other, 0.5) exactly when every category
\* scores 0; whenever a rule fires the winner is one of the ten specific
\* categories with confidence > 0; so a rule-engine Other (0.5) differs from the
\* insufficient-text floor (0.0), also once rounded to 2 decimals.
C12_OtherIffNoRuleFires ==
    calls > 0 =>
        /\ ruleOut.document_type = "Other" <=> \A c \in CategorySet : ruleOut.scores[c] = 0
        /\ ruleOut.document_type = "Other" =>
               /\ ruleOut.confidence = 500
               /\ Round2(ruleOut.confidence) # InsufficientResult.confidence
        /\ ruleOut.document_type # "Other" =>
               /\ ruleOut.document_type \in SpecificCategories
               /\ ruleOut.confidence > 0
               /\ ruleOut.scores[ruleOut.document_type] > 0

\* the same classifier was asked about a text no rule fires on, and then about
\* a text where one rule fires
C12_Witness ==
    /\ calls = MaxRuleCalls
    /\ \E t \in DOMAIN ruleLog :
          /\ t # "" /\ ruleLog[t].document_type = "Other" /\ ruleLog[t].confidence = 500
    /\ ruleOut.document_type = "ID Application" /\ ruleOut.scores["Grade Sheet"] = 3
    /\ ruleOut.confidence = 600

\* the runs of word characters of s, as <<first, last>> positions, and those
\* of them that are 4 or more letters and nothing else
WordRuns(s) ==
    {<<i, RunEnd("word", s, i) - 1>> : i \in {k \in 1..Len(s) : WordAt(s, k) /\ ~WordAt(s, k - 1)}}
LetterRuns(s) ==
    {r \in WordRuns(s) : r[2] - r[1] + 1 >= 4 /\ \A k \in r[1]..r[2] : IsAlpha(CharAt(s, k))}
RunWord(s, r) == SubSeq(s, r[1], r[2])
RunsOf(w, s, runs) == {r \in runs : RunWord(s, r) = w}
Frequency(w, s, runs) == Cardinality(RunsOf(w, s, runs))
FirstAt(w, s, runs) == SetMin({r[1] : r \in RunsOf(w, s, runs)})

\* a comes before b: it is more frequent, or as frequent and first seen earlier
RanksBefore(a, b, s, runs) ==
    \/ Frequency(a, s, runs) > Frequency(b, s, runs)
    \/ /\ Frequency(a, s, runs) = Frequency(b, s, runs)
       /\ FirstAt(a, s, runs) < FirstAt(b, s, runs)

\* the words that can be keywords of the lower-cased text s
KeywordCandidates(s, runs) == {RunWord(s, r) : r \in runs} \ StopWords

\* kw is the first 5 of the candidates of s in rank order
IsKeywordList(kw, s, runs, words) ==
    /\ Len(kw) = Min(5, Cardinality(words))
    /\ \A i \in 1..Len(kw) : kw[i] \in words
    /\ \A i \in 1..Len(kw), j \in 1..Len(kw) : i < j => RanksBefore(kw[i], kw[j], s, runs)
    /\ \A w \in words \ SeqToSet(kw) : \A i \in 1..Len(kw) : RanksBefore(kw[i], w, s, runs)

KeywordsAsSpecified(kw, s, runs) == IsKeywordList(kw, s, runs, KeywordCandidates(s, runs))

\* C13: for a text of trimmed length 10 or more, whichever path ran, the
\* keywords are the lower-cased purely alphabetic tokens of length >= 4 that
\* are not stop words, by frequency descending, frequency ties in order of first
\* occurrence, cut to the first 5; no duplicates, at most 5 entries.
C13_Keywords ==
    Classified /\ ~ShortDoc =>
        /\ KeywordsAsSpecified(result.keywords, Lower(doc.val), LetterRuns(Lower(doc.val)))
        /\ Len(result.keywords) <= 5
        /\ Cardinality(SeqToSet(result.keywords)) = Len(result.keywords)

\* the model answered for a text with more than 5 candidate words, a stop word
\* or a token glued to digits, and a repeated word that is not the first one
C13_WitnessOn(s, runs) ==
    /\ Cardinality(KeywordCandidates(s, runs)) > 5
    /\ Len(result.keywords) = 5
    /\ Frequency(result.keywords[1], s, runs) = 2
    /\ \E w \in KeywordCandidates(s, runs) : FirstAt(w, s, runs) < FirstAt(result.keywords[1], s, runs)
    /\ \/ \E r \in runs : RunWord(s, r) \in StopWords
       \/ \E r \in WordRuns(s) \ runs : Contains(RunWord(s, r), "exam")
C13_Witness ==
    /\ Classified /\ ~ShortDoc /\ result.method = "ml_model"
    /\ C13_WitnessOn(Lower(doc.val), LetterRuns(Lower(doc.val)))

\* the text extract_syllabus_review was given, normalised, and its lower case
GivenNorm == Norm(IF ftext.some THEN ftext.val ELSE "")
GivenLower == Lower(GivenNorm)

\* re.search finds pattern pre followed by one of the alternatives in s
FoundIn(pre, alts, s) == \E i \in DOMAIN alts : Search(pre \o alts[i], s)

\* a label followed by at least one character
LabelWithText(label, s) ==
    \E q \in 1..(Len(s) + 1) : \E g \in MatchEnds(label, s, q) : g <= Len(s)

\* one of the patterns the fields are read with is present in the text
DocumentCodePresent == Search(DocCodePattern, GivenLower)
CourseCodePresent ==
    \/ FoundIn(CourseLabel, LabeledCourseCodes, GivenLower)
    \/ FoundIn(<<WordB>>, AnyCourseCodes, GivenNorm)
SemesterPresent ==
    \/ FoundIn(<<WordB>>, SemesterForms, GivenLower)
    \/ \E i \in DOMAIN Ordinals : Search(<<WordB>> \o Ordinals[i] \o OrdinalSuffix, GivenLower)
AcademicYearPresent ==
    \/ Search(AyPrefix \o Year \o <<WordB>>, GivenLower)
    \/ Len(FindAll(BoundedYear, GivenNorm)) >= 2 /\ Contains(GivenLower, "ay")
DescriptiveTitlePresent == LabelWithText(TitleLabel, GivenLower)
FacultyPresent == LabelWithText(FacultyLabel, GivenLower)
ReviewedByPresent == Search(ReviewedLabel \o ReviewerName, GivenLower)
ReviewDatePresent == \E pre \in DateLabels : FoundIn(pre, DateForms, GivenLower)

NoFieldPattern ==
    ~(\/ DocumentCodePresent \/ CourseCodePresent \/ SemesterPresent \/ AcademicYearPresent
      \/ DescriptiveTitlePresent \/ FacultyPresent \/ ReviewedByPresent \/ ReviewDatePresent)

AllFieldsNull ==
    /\ \A k \in {"document_code", "course_code", "semester", "academic_year",
                 "descriptive_title", "reviewed_by", "review_date"} : fields[k] = NoValue
    /\ fields.faculty = <<>>
    /\ fields.debug_present_fields = <<>>

\* C14: extract_syllabus_review returns for every text, absent and empty text
\* included, and never raises; when none of the patterns the fields are read
\* with is present in the text, document_code, course_code, semester,
\* academic_year, descriptive_title, reviewed_by and review_date are null,
\* faculty is empty and the debug-present list is empty.
C14_MissingFieldsAreNull ==
    FieldsExtracted => fields.raised = "none" /\ (NoFieldPattern => AllFieldsNull)

\* a text of ten characters or more with none of the patterns was extracted from
C14_Witness ==
    /\ FieldsExtracted
    /\ ftext.some
    /\ Len(Strip(ftext.val)) >= MinTextLen
    /\ NoFieldPattern
    /\ AllFieldsNull
    /\ fields.yes_count = 0

\* extract_text_from_image or extract_text_from_pdf has returned to extract_text
Returned == pc = "extracted" /\ otext.some

IsPrefixOf(a, b) == Len(a) <= Len(b) /\ SubSeq(b, 1, Len(a)) = a

\* the merged text of the document before any length cap
WholeText ==
    IF InPdf THEN Strip(Join("\n\n", untruncated))
    ELSE IF untruncated = <<>> THEN "" ELSE untruncated[1]

\* OCR_MAX_CHARS as configured: 1500 when missing or not an integer
ConfiguredMaxChars ==
    CASE max_chars_env = EnvValue("12") -> 12
      [] max_chars_env = EnvValue("0") -> 0
      [] max_chars_env = EnvValue("-1") -> 0 - 1
      [] OTHER -> 1500

\* C15: the text returned by extract_text_from_image and extract_text_from_pdf
\* is never longer than the configured maximum character count, for every
\* configured value, and it is a prefix of the untruncated merged text.
C15_TextWithinLimit ==
    Returned =>
        /\ Len(otext.val) <= ConfiguredMaxChars
        /\ IsPrefixOf(otext.val, WholeText)

\* two texts as paragraphs: a blank line between them when both are there
Paragraphs(a, b) == IF a = "" THEN b ELSE IF b = "" THEN a ELSE a \o "\n\n" \o b

\* what the OCR of a region returned, whatever its confidence
RegionText(r) == Strip(OcrTextAndConf(r).text)

\* C16: before truncation the text of a page is the concatenation of exactly
\* the non-empty pieces among header-region text, best full-page text and
\* body-region text, in that order, joined by a blank line; an empty piece adds
\* neither text nor separator; header and body are included whatever their
\* confidence.
C16_PageTextIsJoinedPieces ==
    [][/\ pc = "searched" /\ pc' = "body" =>
             header_text' \in {"", RegionText(PageBackend.header)}
       /\ pc = "body" =>
             body_text' \in {"", RegionText(PageBackend.body)}
       /\ pc = "merge" =>
             untruncated' =
                 Append(untruncated, Paragraphs(header_text, Paragraphs(best_text, body_text)))]_vars

\* an image whose full-page search found nothing, its header read with
\* confidence 0 and its body read: the page text is header, blank line, body
C16_Witness ==
    /\ pc = "extracted" /\ ~InPdf /\ fault = NoError
    /\ best_text = ""
    /\ header_text = "RECEIPT" /\ OcrTextAndConf(PageBackend.header).conf = 0
    /\ body_text = "for tuition fees."
    /\ untruncated = <<"RECEIPT\n\nfor tuition fees.">>

\* OCR_MAX_PAGES as configured: 1 when missing or not an integer
ConfiguredMaxPages ==
    CASE max_pages_env = EnvValue("2") -> 2
      [] max_pages_env = EnvValue("3") -> 3
      [] max_pages_env = EnvValue("0") -> 0
      [] OTHER -> 1

\* the page indices 0 .. n-1 in order
FirstPages(n) == [k \in 1..n |-> k - 1]

\* the texts page i can yield before the length cap: its regions and one of
\* its full-page candidates, each there or not
CandidateTexts(i) == {OcrTextAndConf(backend[i].page[p]).text : p \in Pairs}
PageTextsOf(i) ==
    {Paragraphs(h, Paragraphs(b, y)) :
        h \in {"", RegionText(backend[i].header)},
        b \in {""} \cup CandidateTexts(i),
        y \in {"", RegionText(backend[i].body)}}

\* extract_text_from_pdf returned from its last line
PdfDone == InPdf /\ pc = "extracted" /\ caught # "extract_text_from_pdf"

\* the pages are taken in order, once each, up to limit of them; at the return
\* the result is their texts in that order as paragraphs
PagesInOrder(limit) ==
    InPdf =>
        /\ processed = FirstPages(Len(processed))
        /\ Len(processed) <= Min(npages, limit)
        /\ Len(extracted_text) <= Len(processed)
        /\ \A k \in 1..Len(extracted_text) :
              \E whole \in PageTextsOf(processed[k]) : IsPrefixOf(extracted_text[k], whole)
        /\ PdfDone =>
              /\ Len(processed) = Min(npages, limit)
              /\ Len(extracted_text) = Len(processed)
              /\ \E joined \in {Strip(Join("\n\n", extracted_text))} :
                    /\ IsPrefixOf(otext.val, joined)
                    /\ Len(joined) <= ConfiguredMaxChars => otext.val = joined

MalformedInput == fault = "convert_from_path" \/ (fault = "imread" /\ ~InPdf)

\* C18: a malformed input document (a PDF whose rasterization fails, a
\* zero-byte or undecodable image) is fatal: extraction surfaces an error to the
\* caller before any OCR attempt is made, instead of returning a text result.
C18_MalformedIsFatal ==
    MalformedInput =>
        /\ attempts = <<>>
        /\ raised # NoError
        /\ ~otext.some

\* every call of the backend fails, on every page
BackendUnavailable == \A i \in PageIndexes : backend[i] = DownPage

\* every call of the backend succeeds and recognizes nothing
NothingToRead == \A i \in PageIndexes : backend[i] = BlankPage

\* what the caller of extract_text observes
Outcome == [text |-> otext, raised |-> raised]

\* the extraction is over, the backend was called, and no other call failed
ExtractionOver ==
    pc \in {"extracted", "raised"} /\ attempts # <<>> /\ fault = NoError /\ ~degraded

\* C19: total unavailability of the OCR backend is surfaced to the caller as
\* a distinct error: the outcome differs from that of a readable page with no
\* extractable text, which is the empty text.
C19_UnavailableIsDistinct ==
    /\ NothingToRead /\ ExtractionOver => Outcome = [text |-> SomeText(""), raised |-> NoError]
    /\ BackendUnavailable /\ ExtractionOver =>
          /\ Outcome # [text |-> SomeText(""), raised |-> NoError]
          /\ raised # NoError

\* some OCR attempt of the page of an image file produced text
SomeAttemptProducedText ==
    \/ \E p \in Pairs : OcrTextAndConf(backend[0].page[p]).text # ""
    \/ header_text # ""
    \/ body_text # ""

\* C20: a failing OCR attempt is scored as empty text with zero confidence and
\* the search continues; extract_text_from_image yields an empty string only if
\* all OCR attempts of the page failed to produce text: when a full-page
\* candidate, the header region or the body region produced text, the page text
\* is not empty.
C20_EmptyOnlyIfAllFailed ==
    /\ OcrTextAndConf(BackendDown) = [text |-> "", conf |-> 0]
    /\ pc \in {"searched", "body", "merge"} => Len(attempts) = NumVariants * NumConfigs
    /\ ~InPdf /\ Returned /\ fault = NoError /\ SomeAttemptProducedText => otext.val # ""
(***************************************************************************)
(* Claims about invocations running side by side                           *)
(***************************************************************************)
\* what invocation w returns when it runs alone: the images of the first
\* pages of its own document, written by itself, in page order
AloneText(w) ==
    [k \in 1..PagesToProcess(Job(w).pages, MaxPagesSetting) |-> [by |-> w, doc |-> w, page |-> k - 1]]
AloneOut(w) ==
    [status |-> IF Job(w).kind = "upload" THEN "200" ELSE "returned", text |-> AloneText(w)]

\* C21: when two documents are processed at the same time, two PDF
\* extractions or two uploads in any interleaving, every invocation that is
\* over has the result it has when run alone, has read no page image and no
\* temporary file written by the other, and has not failed.
C21_NoInterference ==
    \A w \in DOMAIN jobs :
        Job(w).pc = "done" => Job(w).out = AloneOut(w) /\ ~Job(w).foreign

(***************************************************************************)
(* Claims about failures inside an extraction                              *)
(***************************************************************************)
\* the preprocessing steps: every step after the read of the image and its
\* conversion to gray
PreprocessingSteps ==
    {ImageSteps[k].name : k \in 3..Len(ImageSteps)}

\* C22: no failure of a single preprocessing step ends the page: after a
\* preprocessing step, failed or not, extract_text_from_image is at its next
\* step or at the candidate search, from where the header, the body and the
\* merge follow.
C22_TransformFailureNotFatal ==
    [][pc = "transforms" /\ ImageSteps[step].name \in PreprocessingSteps
         => pc' \in {"transforms", "search"}]_vars

(***************************************************************************)
(* Claims about one OCR attempt                                            *)
(***************************************************************************)
\* the confidences the backend reported as numbers that are not negative
ReportedConfs(r) == {i \in DOMAIN r.conf : r.conf[i].num /\ r.conf[i].val >= 0}

\* the k-th smallest of the reported confidences
AtMost(r, x) == Cardinality({i \in ReportedConfs(r) : r.conf[i].val <= x})
KthSmallest(r, k) == SetMin({r.conf[i].val : i \in {j \in ReportedConfs(r) : AtMost(r, r.conf[j].val) >= k}})

\* their median in half points, 0 when there are none
MedianOfReported(r, n) ==
    IF n = 0 THEN 0 ELSE KthSmallest(r, (n + 1) \div 2) + KthSmallest(r, n \div 2 + 1)

\* a word was recognized: an entry of the text column that is not blank
WordRecognized(r) == ~r.data_raises /\ \E i \in DOMAIN r.text : Strip(r.text[i]) # ""

\* the candidate the claim describes for what the backend does
ScoreAsClaimed(r, c) ==
    /\ c.conf >= 0
    /\ WordRecognized(r) => c.conf = MedianOfReported(r, Cardinality(ReportedConfs(r)))
    /\ ~WordRecognized(r) => c.conf = 0
    /\ r.data_raises /\ r.plain_raises => c = [text |-> "", conf |-> 0]

\* C23: for every OCR attempt of the search, the candidate's confidence is the
\* median of the per-word confidences reported as non-negative numbers, 0.0
\* when there are none, 0.0 when no word was recognized and the text is that
\* of the plain-string fallback, the candidate is ("", 0.0) on total failure,
\* and the confidence is never negative.
C23_ScoreIsMedian ==
    \A k \in DOMAIN attempts :
        ScoreAsClaimed(PageBackend.page[attempts[k]], OcrTextAndConf(PageBackend.page[attempts[k]]))

(***************************************************************************)
(* Claims about classify_document                                          *)
(***************************************************************************)
\* the extractor was run on the classified text, for a syllabus review form
ExtractorRanInTurn ==
    /\ Classified
    /\ result.document_type = "Syllabus Review Form"
    /\ pc \in {"fields_done", "answered"}
    /\ ftext = doc

\* the answer carries the classification as classify returned it, and an
\* empty field set when the extractor raised
AnswerCarriesResult ==
    /\ response.document_type = result.document_type
    /\ response.confidence = result.confidence
    /\ response.keywords = result.keywords
    /\ fields.raised # "none" => response.fields = EmptyDict

\* C24: the field extractor runs only after classify and only when the
\* document type is 'Syllabus Review Form'; step 2.1 never changes the
\* classification and never ends the request, also when the extractor raises,
\* and the answer of a request that is stored carries the document type, the
\* confidence and the keywords of the classification, with an empty field set
\* when the extractor raised.
C24_FieldsAfterClassification ==
    /\ [](FieldsExtracted => ExtractorRanInTurn)
    /\ [](response.status = 200 => AnswerCarriesResult)
    /\ [][pc = "classified" => pc' = "fields_done" /\ result' = result]_vars
    /\ [][pc = "fields_done" => result' = result]_vars

\* a request whose extractor raised was answered with its classification
C24_Witness ==
    /\ pc = "answered"
    /\ fields = ExtractorRaised
    /\ response.status = 200
    /\ response.document_type = "Syllabus Review Form"
    /\ response.fields = EmptyDict

(***************************************************************************)
(* Claims about the files of an extraction                                 *)
(***************************************************************************)
\* C25: the core has no side effect but its result: no step of extract_text,
\* on the image path or on the PDF path, writes or removes a file.
C25_NoFileWrittenOrRemoved == [][temp_files' = temp_files]_vars

\* C26: in a multi-page extraction a failure while one page is processed, in
\* its OCR or in the handling of its page image, costs that page only: the
\* text extract_text_from_pdf returns is made of the page texts obtained, a
\* failed page counting as "".
C26_PageFailureIsLocal ==
    Returned /\ InPdf =>
        otext.val = Truncate(Strip(Join("\n\n", extracted_text)), MaxChars)

(* Claims about the scores of the rule engine *)
\* the place of a category in CATEGORIES
PlaceOf(c) == CHOOSE i \in 1..Len(CATEGORIES) : CATEGORIES[i] = c
Greatest(scores) == {c \in CategorySet : \A o \in CategorySet : scores[o] <= scores[c]}
\* min(m / 10, 1.0), in thousandths
TenthsCapped(m) == IF m >= 10 THEN 1000 ELSE m * 100

\* C27: when a category scores above 0 the rule engine returns a category with
\* the greatest score and confidence min(maxScore / 10, 1.0); of several
\* categories with the greatest score it returns the earliest in CATEGORIES;
\* every score is a non-negative integer when the winner is chosen.
C27_WinnerHasMaxScore ==
    calls > 0 =>
        /\ \A c \in CategorySet : ruleOut.scores[c] \in Nat
        /\ (\E c \in CategorySet : ruleOut.scores[c] > 0) =>
              /\ ruleOut.document_type \in Greatest(ruleOut.scores)
              /\ \A c \in Greatest(ruleOut.scores) :
                     PlaceOf(ruleOut.document_type) <= PlaceOf(c)
              /\ \E m \in 1..30 :
                     /\ m = ruleOut.scores[ruleOut.document_type]
                     /\ ruleOut.confidence = TenthsCapped(m)

\* the classifier was asked about a text where two categories share the
\* greatest score, and then about a text that scores more than 10
C27_Witness ==
    /\ calls = MaxRuleCalls
    /\ \E t \in DOMAIN ruleLog :
          /\ Cardinality(Greatest(ruleLog[t].scores)) > 1
          /\ ruleLog[t].scores[ruleLog[t].document_type] > 0
    /\ ruleOut.scores[ruleOut.document_type] > 10
    /\ ruleOut.confidence = 1000

\* the scores of a text before the syllabus block, and its composite
ScoresBefore(t) == AddPoints(InitialScores, KeywordPoints(extract_features(t), Lower(t)))
CompositeOf(t) == SyllabusSignals(extract_features(t))
GradeBefore(t) == ScoresBefore(t)["Grade Sheet"]

\* what the claim says the syllabus block does to the scores
AdjustedAsClaimed(before, composite, after) ==
    /\ composite > 0 =>
          /\ after["Grade Sheet"] = Max(0, before["Grade Sheet"] - 3)
          /\ before["Grade Sheet"] - after["Grade Sheet"] \in 0..3
          /\ after["Syllabus Review Form"] = before["Syllabus Review Form"] + composite
    /\ composite = 0 =>
          /\ after["Grade Sheet"] = before["Grade Sheet"]
          /\ after["Syllabus Review Form"] = before["Syllabus Review Form"]
    /\ \A c \in CategorySet \ {"Grade Sheet", "Syllabus Review Form"} :
          after[c] = before[c]

\* C28: if and only if the syllabus-review composite is above 0 the Grade Sheet
\* score becomes max(0, score - 3), dropping by at most 3 and never below 0,
\* and the Syllabus Review Form score grows by exactly the composite; no other
\* score changes, and with a composite of 0 the Grade Sheet score is left as
\* computed.
C28_SyllabusAdjustment ==
    calls > 0 =>
        AdjustedAsClaimed(ScoresBefore(ruleOut.text), CompositeOf(ruleOut.text),
                          ruleOut.scores)

\* a text whose Grade Sheet score of 5 dropped to 2 was classified, and then a
\* text whose Grade Sheet score of 3 dropped to 0, both with the composite
\* above 0
C28_Witness ==
    /\ calls = MaxRuleCalls
    /\ \E t \in DOMAIN ruleLog :
          /\ CompositeOf(t) > 0 /\ GradeBefore(t) = 5
          /\ ruleLog[t].scores["Grade Sheet"] = 2
          /\ ruleLog[t].scores["Syllabus Review Form"] = CompositeOf(t)
    /\ CompositeOf(ruleOut.text) > 0 /\ GradeBefore(ruleOut.text) = 3
    /\ ruleOut.scores["Grade Sheet"] = 0

(* Claims about the debug list of the field extractor *)
\* the returned value of field k is neither null nor empty
Populated(k) ==
    IF k = "faculty" THEN Len(fields.faculty) > 0
    ELSE fields[k] # NoValue /\ Len(fields[k]) > 0
Listed(k) == \E j \in DOMAIN fields.debug_present_fields : fields.debug_present_fields[j] = k

\* C29: in every FieldSet extract_syllabus_review returns, each of the eight
\* field names is in the debug-present list if and only if the returned value
\* of the field is neither null nor empty; the list has no other name and no
\* name twice.
C29_DebugListsPopulatedFields ==
    fields.raised = "none" =>
        /\ \A i \in DOMAIN FieldNames : Listed(FieldNames[i]) <=> Populated(FieldNames[i])
        /\ \A j \in DOMAIN fields.debug_present_fields :
              /\ \E i \in DOMAIN FieldNames : fields.debug_present_fields[j] = FieldNames[i]
              /\ \A k \in DOMAIN fields.debug_present_fields :
                    fields.debug_present_fields[j] = fields.debug_present_fields[k] => j = k

\* a text with a title and a faculty label whose only name is too short: the
\* title is listed, the empty faculty list is not
C29_Witness ==
    /\ fields.raised = "none"
    /\ ftext = SomeText("descriptive title: intro to it faculty: x")
    /\ fields.descriptive_title = "Intro To It"
    /\ fields.faculty = <<>>
    /\ fields.debug_present_fields = <<"descriptive_title">>

\* C30: temporary page images are transient: when extract_text_from_pdf has
\* returned, on its normal path or on its error path, no temp_page_<i>.png of
\* the call remains, and the file of a page is removed before the file of the
\* next page is written.
C30_TempPagesAreTransient ==
    /\ Returned /\ InPdf => temp_files = {}
    /\ Cardinality(temp_files) <= 1

====
